---- MODULE Spec2Model ----
(***************************************************************************)
(* Verification model of the fps-battleground simulation core:             *)
(*   - the weapon firing model (MultiWeapon / Weapon),                     *)
(*   - the projectile-hit resolver and enemy life cycle (Game, Enemy),     *)
(*   - the movement / collision resolver (Player, Enemy, CollisionManager),*)
(*   - the peer-to-peer event protocol (MultiplayerManager, NetworkPlayer).*)
(*                                                                         *)
(* Fixed-point conventions                                                 *)
(*   time     : ticks of 1/60 s  (1000 ms = 60 ticks)                      *)
(*   length   : millimetres      (1 world unit = 1000)                     *)
(*   fireRate : tenths of shots per second (fireRate10 = 10 * fireRate)    *)
(***************************************************************************)
EXTENDS Integers, Sequences, FiniteSets, TLC

VARIABLES
  \* ---- weapon firing model (MultiWeapon / Weapon fields) ----
  useMultiWeapon,     \* Game.useMultiWeapon
  currentWeaponType,  \* MultiWeapon.currentWeaponType ("weapon" = class Weapon)
  currentAmmo,        \* currentAmmo
  reserveAmmo,        \* reserveAmmo
  timeSinceLastShot,  \* performance.now() - lastShotTime (ticks, saturated at SinceCap)
  isReloading,        \* isReloading
  reloadTimer,        \* reloadTimer (ticks)
  projectiles,        \* Game.projectiles
  \* ---- observation of the weapon slice of the last frame ----
  lastFire,           \* what the fire request of the last frame did
  lastReload,         \* what finishReload did in the last frame
  sinceAccepted,      \* time since the last accepted shot (ticks, saturated), -1 if none
  switches,           \* number of effective switchWeapon calls so far
  shotCount,          \* number of accepted shots so far
  putAway,            \* whether each weapon type was last put away with rounds missing
  script,             \* the scripted rapid-fire sequence observed so far
  \* ---- local player (Player fields) ----
  health,             \* Player.health
  position,           \* camera.position (eye position), millimetres
  \* ---- multiplayer session (Game, MultiplayerManager, NetworkPlayer) ----
  isHost,             \* MultiplayerManager.isHost
  isMobile,           \* InputManager.isMobile
  isRunning,          \* Game.isRunning
  myKills,            \* Game.myKills
  matchResult,        \* title of the match-result overlay ("none" while hidden)
  networkPlayer,      \* the NetworkPlayer puppet
  inbox,              \* messages of the peer in flight on the data connection
  outbox,             \* messages handed to connection.send by the last step
  respawnTimers,      \* pending respawn timeouts of handleMyDeath
  received,           \* number of messages handled so far
  lastEvent,          \* the message handled by the last step, with the state before it
  \* ---- solo combat (Game) ----
  enemies,            \* Game.enemies
  kills,              \* Game.kills
  bossSpawned,        \* Game.bossSpawned
  waveNumber,         \* Game.waveNumber
  respawnPending,     \* pending enemy respawn timeouts
  examined,           \* what updateProjectiles did with each pair it examined last frame
  frames,             \* frames of the combat slice so far
  \* ---- movement and collision (Player, Enemy, CollisionManager) ----
  colliders,          \* CollisionManager.colliders / Enemy.colliders (the same boxes)
  velocityY,          \* Player.velocity.y, millimetres per second
  isGrounded,         \* Player.isGrounded
  meshPosition,       \* mesh.position of enemies[1], millimetres
  lastMove,           \* what the horizontal resolution of the last movement step did
  \* ---- state synchronisation (Game.sendPlayerState, MultiplayerManager.sendState) ----
  isMultiplayer,      \* Game.isMultiplayer
  isConnected,        \* MultiplayerManager.isConnected (the data connection is open)
  sinceStateSent,     \* Date.now() - Game.lastStateSent (ticks, saturated at STATE_SEND_RATE)
  lastSentState,      \* MultiplayerManager.lastSentState (NoState = null)
  lastPose,           \* MultiplayerManager.lastX, lastY, lastZ, lastR
  lastSync,           \* what sendPlayerState did in the last frame
  framesSinceLoss     \* frames that advanced the simulation since the connection closed

VARIABLES
  puppetNow,          \* Date.now(), ms since the match started
  lastUpdateTime,     \* NetworkPlayer.lastUpdateTime
  lastShootTime,      \* NetworkPlayer.lastShootTime
  predictedPosition,  \* predictedPosition of the last NetworkPlayer.update
  muzzleFlash,        \* NetworkPlayer.muzzleFlash.intensity
  lastSnapshot,       \* the state message received last
  puppetStep          \* kind of the last puppet step, snapshots received since the last frame

VARIABLES
  room,               \* the manager's room code, peer, connection and pending promise
  broker,             \* the peer ids registered at the broker
  lastRoom            \* the last event of the room slice

VARIABLES
  grenades,           \* GrenadeSystem.grenades
  grenadeCount,       \* GrenadeSystem.grenadeCount
  lastBlast           \* fuses expired and explosions applied in the last frame

VARIABLES
  respawnNow,         \* time since the game started (ms)
  respawnTimeouts,    \* the pending respawn timeouts: time of the kill, time due
  lastSpawn           \* what the last respawn timeout did, and how many have fired

weaponVars == <<useMultiWeapon, currentWeaponType, currentAmmo, reserveAmmo,
                timeSinceLastShot, isReloading, reloadTimer, projectiles>>
weaponObs  == <<lastFire, lastReload, sinceAccepted, switches, shotCount, putAway, script>>

playerVars == <<health, position>>
netVars    == <<isHost, isMobile, isRunning, myKills, matchResult, networkPlayer,
                inbox, outbox, respawnTimers, received, lastEvent>>

combatVars == <<enemies, kills, bossSpawned, waveNumber, respawnPending, examined, frames>>

moveVars   == <<colliders, velocityY, isGrounded, meshPosition, lastMove>>

syncVars   == <<isMultiplayer, isConnected, sinceStateSent, lastSentState, lastPose,
                lastSync, framesSinceLoss>>

puppetVars == <<puppetNow, lastUpdateTime, lastShootTime, predictedPosition, muzzleFlash,
                lastSnapshot, puppetStep>>

roomVars   == <<room, broker, lastRoom>>

grenadeVars == <<grenades, grenadeCount, lastBlast>>

timerVars  == <<respawnNow, respawnTimeouts, lastSpawn>>

vars == <<weaponVars, weaponObs, playerVars, netVars, combatVars, moveVars, syncVars, puppetVars, roomVars, grenadeVars, timerVars>>

----------------------------------------------------------------------------
(* Generic helpers *)

Min(a, b) == IF a <= b THEN a ELSE b
Max(a, b) == IF a >= b THEN a ELSE b
Abs(a) == IF a < 0 THEN -a ELSE a

----------------------------------------------------------------------------
(* Bounds of the model *)

MaxShots == 3          \* accepted shots per behaviour of the weapon slice
MaxSwitches == 2       \* weapon switches explored per behaviour
MaxScript == 160       \* length of the scripted rapid-fire sequence (ticks)

----------------------------------------------------------------------------
(* Weapon firing model *)

TicksPerSecond == 60
MaxDelta == 6          \* Math.min(clock.getDelta(), 0.1): 0.1 s = 6 ticks

\* wall-clock lengths of a rendered frame (ticks): 50 ms, 100 ms,
\* and a stalled frame of 150 ms whose delta is clamped
FrameSteps == {3, 6, 9}

MultiWeaponTypes == {"rifle", "shotgun", "sniper", "smg"}
WeaponTypes == MultiWeaponTypes \cup {"weapon"}

\* WEAPON_CONFIGS, and the fields of class Weapon under the key "weapon"
WEAPON_CONFIGS ==
  [t \in WeaponTypes |->
     CASE t = "rifle"   -> [damage |-> 25,  fireRate10 |-> 100, maxAmmo |-> 30,
                            reserveAmmo |-> 120, reloadTime |-> 90,  pelletCount |-> 1]
       [] t = "shotgun" -> [damage |-> 15,  fireRate10 |-> 15,  maxAmmo |-> 8,
                            reserveAmmo |-> 32,  reloadTime |-> 150, pelletCount |-> 8]
       [] t = "sniper"  -> [damage |-> 100, fireRate10 |-> 8,   maxAmmo |-> 5,
                            reserveAmmo |-> 20,  reloadTime |-> 120, pelletCount |-> 1]
       [] t = "smg"     -> [damage |-> 18,  fireRate10 |-> 150, maxAmmo |-> 40,
                            reserveAmmo |-> 160, reloadTime |-> 72,  pelletCount |-> 1]
       [] t = "weapon"  -> [damage |-> 25,  fireRate10 |-> 100, maxAmmo |-> 30,
                            reserveAmmo |-> 90,  reloadTime |-> 90,  pelletCount |-> 1]]

\* Projectile.damage: every Projectile is constructed with this field value
ProjectileDamage == 25

\* The weapon object as a record of its fields
WeaponRec == [type |-> currentWeaponType, ammo |-> currentAmmo, reserve |-> reserveAmmo,
              since |-> timeSinceLastShot, reloading |-> isReloading, timer |-> reloadTimer]

\* timeSinceLastShot >= minTimeBetweenShots (= 1000 / fireRate),
\* in ticks and tenths of shots per second
CooldownElapsed(type, since) ==
  since * WEAPON_CONFIGS[type].fireRate10 >= 10 * TicksPerSecond

\* From this time on the cooldown of every weapon has elapsed: canShoot reads
\* the clock only through now - lastShotTime, so larger values are equivalent.
SinceCap ==
  CHOOSE s \in 0..(10 * TicksPerSecond) :
    /\ \A t \in WeaponTypes : CooldownElapsed(t, s)
    /\ \E t \in WeaponTypes : ~CooldownElapsed(t, s - 1)

Saturate(since) == Min(since, SinceCap)

\* minTimeBetweenShots of a weapon type, rounded up to whole ticks
Period(type) == CHOOSE s \in 0..SinceCap :
                  CooldownElapsed(type, s) /\ ~CooldownElapsed(type, s - 1)

\* canShoot() without the fire-rate test
canShoot_NoCooldown(w) ==
  /\ ~w.reloading
  /\ w.ammo > 0

\* canShoot()
canShoot(w) ==
  /\ ~w.reloading
  /\ w.ammo > 0
  /\ CooldownElapsed(w.type, w.since)

\* reload() that starts over when a reload is already in progress
reload_Restart(w) ==
  IF w.ammo = WEAPON_CONFIGS[w.type].maxAmmo \/ w.reserve = 0
  THEN w
  ELSE [w EXCEPT !.reloading = TRUE, !.timer = WEAPON_CONFIGS[w.type].reloadTime]

\* reload()
reload(w) ==
  IF w.reloading \/ w.ammo = WEAPON_CONFIGS[w.type].maxAmmo \/ w.reserve = 0
  THEN w
  ELSE [w EXCEPT !.reloading = TRUE, !.timer = WEAPON_CONFIGS[w.type].reloadTime]

\* shoot() that does not record the time of the shot
shoot_NoTimestamp(w) ==
  LET fired == [w EXCEPT !.ammo = w.ammo - 1]
  IN IF fired.ammo = 0 /\ fired.reserve > 0 THEN reload(fired) ELSE fired

\* shoot(): the weapon after an accepted shot (lastShotTime = now, auto reload at ammo 0)
shoot(w) ==
  LET fired == [w EXCEPT !.since = 0, !.ammo = w.ammo - 1]
  IN IF fired.ammo = 0 /\ fired.reserve > 0 THEN reload(fired) ELSE fired

\* the projectiles one accepted shot creates
Pellets(type) ==
  [i \in 1..WEAPON_CONFIGS[type].pelletCount |-> [damage |-> ProjectileDamage]]

\* finishReload() that fills the magazine whatever the reserve holds
finishReload_FillMagazine(w) ==
  LET ammoNeeded == WEAPON_CONFIGS[w.type].maxAmmo - w.ammo
  IN [w EXCEPT !.ammo = w.ammo + ammoNeeded,
               !.reserve = w.reserve - ammoNeeded,
               !.reloading = FALSE]

\* finishReload()
finishReload(w) ==
  LET ammoNeeded == WEAPON_CONFIGS[w.type].maxAmmo - w.ammo
      ammoToAdd  == Min(ammoNeeded, w.reserve)
  IN [w EXCEPT !.ammo = w.ammo + ammoToAdd,
               !.reserve = w.reserve - ammoToAdd,
               !.reloading = FALSE]

\* update(delta): the reload part
updateWeapon(w, delta) ==
  IF w.reloading
  THEN LET ticked == [w EXCEPT !.timer = w.timer - delta]
       IN IF ticked.timer <= 0 THEN finishReload(ticked) ELSE ticked
  ELSE w

\* rounds of a weapon type as configured: a full magazine and the full reserve
FullRounds(type) == WEAPON_CONFIGS[type].maxAmmo + WEAPON_CONFIGS[type].reserveAmmo

\* no weapon type has been put away yet
NeverPutAway == [type \in MultiWeaponTypes |-> FALSE]

NoFire   == [early |-> FALSE, accepted |-> FALSE, changed |-> FALSE, spawned |-> 0,
             tooSoon |-> FALSE]
NoReload == [finished |-> FALSE, type |-> "none", ammoBefore |-> 0, reserveBefore |-> 0,
             ammoAfter |-> 0, reserveAfter |-> 0, reloadingAfter |-> FALSE]
NoScript == [rapid |-> FALSE, shots |-> 0, step |-> 0, elapsed |-> 0, fresh |-> FALSE,
             type |-> "none"]

\* The weapon part of one Game.gameLoop frame: fire request, reload request,
\* weapon update, in that order.
GameLoopWeapon(step, fire, reloadKey) ==
  LET delta == Min(step, MaxDelta)
      w0    == [WeaponRec EXCEPT !.since = timeSinceLastShot + step]
      ok    == fire /\ canShoot(w0)
      w1    == IF ok THEN shoot(w0) ELSE w0
      w2    == IF reloadKey THEN reload(w1) ELSE w1
      w3    == updateWeapon(w2, delta)
      done  == w2.reloading /\ ~w3.reloading
      prev  == sinceAccepted
      rapid == /\ script.rapid /\ fire /\ ~reloadKey /\ step <= MaxDelta
               /\ ~w0.reloading /\ ~w3.reloading /\ w3.ammo > 0
               /\ script.elapsed + step <= MaxScript
  IN /\ ok => shotCount < MaxShots
     /\ shotCount' = shotCount + (IF ok THEN 1 ELSE 0)
     /\ currentAmmo' = w3.ammo
     /\ reserveAmmo' = w3.reserve
     /\ timeSinceLastShot' = Saturate(w3.since)
     /\ isReloading' = w3.reloading
     /\ reloadTimer' = w3.timer
     /\ projectiles' = IF ok THEN projectiles \o Pellets(w0.type) ELSE projectiles
     /\ UNCHANGED <<useMultiWeapon, currentWeaponType, switches, putAway>>
     /\ UNCHANGED <<playerVars, netVars, combatVars, moveVars, syncVars, puppetVars, roomVars, grenadeVars, timerVars>>
     /\ lastFire' = [\* the request came before the cooldown since lastShotTime elapsed
                     early |-> fire /\ ~CooldownElapsed(w0.type, w0.since),
                     accepted |-> ok,
                     \* ammo, reserve, lastShotTime or the reloading flag changed
                     changed |-> w1 # w0,
                     spawned |-> IF ok THEN Len(Pellets(w0.type)) ELSE 0,
                     \* accepted before the cooldown since this weapon's previous
                     \* accepted shot elapsed
                     tooSoon |-> ok /\ prev >= 0 /\ ~CooldownElapsed(w0.type, prev + step)]
     /\ lastReload' = IF done
                      THEN [finished |-> TRUE, type |-> w2.type,
                            ammoBefore |-> w2.ammo, reserveBefore |-> w2.reserve,
                            ammoAfter |-> w3.ammo, reserveAfter |-> w3.reserve,
                            reloadingAfter |-> w3.reloading]
                      ELSE NoReload
     /\ sinceAccepted' = IF ok THEN 0
                        ELSE IF sinceAccepted < 0 THEN -1
                        ELSE Saturate(sinceAccepted + step)
     /\ script' = IF rapid
                  THEN [script EXCEPT
                          !.shots = script.shots + (IF ok THEN 1 ELSE 0),
                          !.step  = IF script.elapsed = 0 \/ script.step = step
                                    THEN step ELSE 0,
                          !.elapsed = script.elapsed + step]
                  ELSE NoScript

\* switchWeapon(type), from the number-key handler
switchWeapon(type) ==
  /\ useMultiWeapon
  /\ type # currentWeaponType
  /\ ~isReloading
  /\ switches < MaxSwitches
  /\ currentWeaponType' = type
  /\ currentAmmo' = WEAPON_CONFIGS[type].maxAmmo
  /\ reserveAmmo' = WEAPON_CONFIGS[type].reserveAmmo
  /\ isReloading' = FALSE
  /\ UNCHANGED <<useMultiWeapon, timeSinceLastShot, reloadTimer, projectiles>>
  /\ lastFire' = NoFire
  /\ lastReload' = NoReload
  \* a scripted rapid-fire sequence may start with the newly selected weapon
  /\ script' = [rapid |-> TRUE, shots |-> 0, step |-> 0, elapsed |-> 0,
                fresh |-> (timeSinceLastShot = 0), type |-> type]
  /\ switches' = switches + 1
  /\ putAway' = [putAway EXCEPT ![currentWeaponType] =
                   currentAmmo + reserveAmmo < FullRounds(currentWeaponType)]
  /\ UNCHANGED <<sinceAccepted, shotCount>>
  /\ UNCHANGED <<playerVars, netVars, combatVars, moveVars, syncVars, puppetVars, roomVars, grenadeVars, timerVars>>

\* Magazine / reserve contents a weapon can hold after some play
\* (full, nearly empty with a short reserve, last round with a large reserve)
InitAmmo(type) ==
  LET c == WEAPON_CONFIGS[type]
  IN {<<c.maxAmmo, c.reserveAmmo>>, <<2, 1>>, <<1, c.maxAmmo + 1>>}

WeaponStart ==
  /\ useMultiWeapon \in BOOLEAN
  /\ currentWeaponType = IF useMultiWeapon THEN "rifle" ELSE "weapon"
  /\ \E a \in InitAmmo(currentWeaponType) : currentAmmo = a[1] /\ reserveAmmo = a[2]
  \* lastShotTime = 0; the loop starts at the time origin or long after it
  /\ timeSinceLastShot \in {0, SinceCap}
  /\ isReloading = FALSE
  /\ reloadTimer = 0
  /\ projectiles = <<>>
  /\ lastFire = NoFire
  /\ lastReload = NoReload
  /\ sinceAccepted = -1
  /\ switches = 0
  /\ shotCount = 0
  /\ putAway = NeverPutAway
  /\ script = [rapid |-> TRUE, shots |-> 0, step |-> 0, elapsed |-> 0,
               fresh |-> (timeSinceLastShot = 0), type |-> currentWeaponType]

----------------------------------------------------------------------------
(* Local player health (Player) *)

MaxHealth == 100       \* Player.health initial value and heal() ceiling

\* Player.takeDamage(amount)
takeDamage(h, amount) == Max(0, h - amount)

\* Player.heal(amount)
heal(h, amount) == Min(MaxHealth, h + amount)

Vec(x, y, z) == [x |-> x, y |-> y, z |-> z]

\* Player start: the camera of the Game constructor
PlayerIdle ==
  /\ health = MaxHealth
  /\ position = Vec(0, 1700, 0)

----------------------------------------------------------------------------
(* Peer-to-peer protocol (MultiplayerManager, Game callbacks, NetworkPlayer) *)

MaxInFlight == 1       \* messages in flight on the data connection
MaxReceived == 6       \* messages handled per behaviour

KILLS_TO_WIN == 5
PuppetMaxHealth == 100 \* NetworkPlayer.maxHealth

\* a message {t, d} of the wire format; d carries the fields of every payload
Msg(t, damage, p, h, s) == [t |-> t, damage |-> damage, x |-> p.x, y |-> p.y, z |-> p.z,
                            h |-> h, s |-> s]
Origin == Vec(0, 0, 0)
NoMsg == Msg("none", 0, Origin, 0, 0)

HitDamages == {-50, 100}
\* everything the peer's connection can deliver: events, snapshots, the name message
PeerMessages ==
  {Msg("hit", d, Origin, 0, 0) : d \in HitDamages}
    \cup {Msg("death", 0, Origin, 0, 0), Msg("win", 0, Origin, 0, 0),
          Msg("chat", 0, Origin, 0, 0)}
    \cup {Msg("respawn", 0, Vec(25000, 2000, 28000), 0, 0)}
    \cup {Msg("s", 0, Vec(21000, 2000, 20000), -5, 1)}

\* time between two snapshots as seen by Date.now() (ms)
SnapshotIntervals == {0, 50}

\* spawn points of handleMyDeath: (-20 + rnd * 10, 2, -20 + rnd * 10) for the host,
\* (20 + rnd * 10, 2, 20 + rnd * 10) for the client
RespawnPoints(host) ==
  IF host THEN {Vec(-20000, 2000, -20000), Vec(-15000, 2000, -12000)}
  ELSE {Vec(20000, 2000, 20000), Vec(25000, 2000, 28000)}

\* ---- NetworkPlayer ----

\* NetworkPlayer.setTargetState(position, rotation), interval = now - lastUpdateTime
setTargetState(np, p, interval) ==
  LET vel == IF np.updated /\ interval > 0
             THEN Vec(((p.x - np.targetPosition.x) * 1000) \div interval,
                      ((p.y - np.targetPosition.y) * 1000) \div interval,
                      ((p.z - np.targetPosition.z) * 1000) \div interval)
             ELSE np.velocity
  IN [np EXCEPT !.velocity = vel, !.updated = TRUE, !.targetPosition = p]

\* NetworkPlayer.setHealth(health)
setHealth(np, h) == [np EXCEPT !.health = h]

\* NetworkPlayer.setPosition(position)
setPosition(np, p) ==
  [np EXCEPT !.position = p, !.targetPosition = p, !.velocity = Origin]

\* NetworkPlayer.respawn(position)
respawn(np, p) == setPosition([np EXCEPT !.health = PuppetMaxHealth], p)

\* NetworkPlayer.shoot()
puppetShoot(np) == [np EXCEPT !.isShooting = TRUE]

\* ---- Game callbacks; g is the part of the game the callbacks touch ----

GameRec == [health |-> health, myKills |-> myKills, isRunning |-> isRunning,
            matchResult |-> matchResult, networkPlayer |-> networkPlayer,
            outbox |-> <<>>, respawnTimers |-> respawnTimers]

\* MultiplayerManager.sendMessage(message) on an open connection
sendMessage(g, m) == [g EXCEPT !.outbox = Append(g.outbox, m)]

\* Game.showMatchResult(won)
showMatchResult(g, won) ==
  [g EXCEPT !.isRunning = FALSE,
            !.matchResult = IF won THEN "VICTORY" ELSE "DEFEAT"]

\* Game.checkWinCondition()
checkWinCondition(g) ==
  IF g.myKills >= KILLS_TO_WIN
  THEN showMatchResult(sendMessage(g, Msg("win", 0, Origin, 0, 0)), TRUE)
  ELSE g

\* Game.handleMyDeath(): notify the peer, arm the respawn timeout
handleMyDeath(g) ==
  [sendMessage(g, Msg("death", 0, Origin, 0, 0)) EXCEPT !.respawnTimers = g.respawnTimers + 1]

\* the onState callback of setupMultiplayerCallbacks
onState(g, m, interval) ==
  LET moved  == setTargetState(g.networkPlayer, Vec(m.x, m.y, m.z), interval)
      healed == setHealth(moved, m.h)
  IN [g EXCEPT !.networkPlayer = IF m.s = 1 THEN puppetShoot(healed) ELSE healed]

\* an onEvent callback that checks the event against the local state first
onEvent_Validated(g, m) ==
  IF ~g.isRunning THEN g
  ELSE IF m.t = "hit" THEN [g EXCEPT !.health = takeDamage(g.health, m.damage)]
  ELSE IF m.t = "death" THEN checkWinCondition([g EXCEPT !.myKills = g.myKills + 1])
  ELSE IF m.t = "respawn"
       THEN [g EXCEPT !.networkPlayer = respawn(g.networkPlayer, Vec(m.x, m.y, m.z))]
  ELSE IF m.t = "win" THEN showMatchResult(g, FALSE)
  ELSE g

\* the onEvent callback of setupMultiplayerCallbacks
onEvent(g, m) ==
  IF m.t = "hit"
  THEN LET hurt == [g EXCEPT !.health = takeDamage(g.health, m.damage)]
       IN IF hurt.health <= 0 THEN handleMyDeath(hurt) ELSE hurt
  ELSE IF m.t = "death"
  THEN checkWinCondition([g EXCEPT !.myKills = g.myKills + 1])
  ELSE IF m.t = "respawn"
  THEN [g EXCEPT !.networkPlayer = respawn(g.networkPlayer, Vec(m.x, m.y, m.z))]
  ELSE IF m.t = "win"
  THEN showMatchResult(g, FALSE)
  ELSE g

\* MultiplayerManager.handleMessage(message)
handleMessage(g, m, interval) ==
  IF m.t = "s" THEN onState(g, m, interval)
  ELSE IF m.t = "c" THEN g
  ELSE onEvent(g, m)

NoEvent == [msg |-> NoMsg, before |-> [health |-> 0, myKills |-> 0, isRunning |-> FALSE]]

\* the peer sends a message over the reliable data connection
PeerSend(m) ==
  /\ Len(inbox) < MaxInFlight
  /\ received + Len(inbox) < MaxReceived
  /\ inbox' = Append(inbox, m)
  /\ outbox' = <<>>
  /\ lastEvent' = NoEvent
  /\ UNCHANGED <<isHost, isMobile, isRunning, myKills, matchResult, networkPlayer,
                 respawnTimers, received>>
  /\ UNCHANGED <<playerVars, weaponVars, weaponObs, combatVars, moveVars, syncVars, puppetVars, roomVars, grenadeVars, timerVars>>

\* connection.on('data'): the oldest message in flight is handled
Receive(interval) ==
  /\ inbox # <<>>
  /\ LET m == Head(inbox)
         g == handleMessage(GameRec, m, interval)
     IN /\ inbox' = Tail(inbox)
        /\ received' = received + 1
        /\ health' = g.health
        /\ myKills' = g.myKills
        /\ isRunning' = g.isRunning
        /\ matchResult' = g.matchResult
        /\ networkPlayer' = g.networkPlayer
        /\ outbox' = g.outbox
        /\ respawnTimers' = g.respawnTimers
        /\ lastEvent' = [msg |-> m,
                         before |-> [health |-> health, myKills |-> myKills,
                                     isRunning |-> isRunning]]
  /\ UNCHANGED <<isHost, isMobile, position>>
  /\ UNCHANGED <<weaponVars, weaponObs, combatVars, moveVars, syncVars, puppetVars, roomVars, grenadeVars, timerVars>>

\* the timeout armed by handleMyDeath fires: respawn and tell the peer
RespawnTimeout(spawnPos) ==
  /\ respawnTimers > 0
  /\ respawnTimers' = respawnTimers - 1
  /\ position' = spawnPos
  /\ health' = heal(health, 100)
  /\ outbox' = <<Msg("respawn", 0, spawnPos, 0, 0)>>
  /\ lastEvent' = NoEvent
  /\ UNCHANGED <<isHost, isMobile, isRunning, myKills, matchResult, networkPlayer,
                 inbox, received>>
  /\ UNCHANGED <<weaponVars, weaponObs, combatVars, moveVars, syncVars, puppetVars, roomVars, grenadeVars, timerVars>>

\* pointer lock lost: Game.pause()
pause ==
  /\ ~isMobile
  /\ isRunning
  /\ isRunning' = FALSE
  /\ outbox' = <<>>
  /\ lastEvent' = NoEvent
  /\ UNCHANGED <<isHost, isMobile, myKills, matchResult, networkPlayer,
                 inbox, respawnTimers, received>>
  /\ UNCHANGED <<playerVars, weaponVars, weaponObs, combatVars, moveVars, syncVars, puppetVars, roomVars, grenadeVars, timerVars>>

\* the session before Game.startMultiplayer
NetIdle ==
  /\ isHost = FALSE
  /\ isMobile = FALSE
  /\ isRunning = FALSE
  /\ myKills = 0
  /\ matchResult = "none"
  /\ networkPlayer = [health |-> PuppetMaxHealth, position |-> Origin,
                      targetPosition |-> Origin,
                      velocity |-> Origin, updated |-> FALSE, isShooting |-> FALSE]
  /\ inbox = <<>>
  /\ outbox = <<>>
  /\ respawnTimers = 0
  /\ received = 0
  /\ lastEvent = NoEvent

\* the session after Game.startMultiplayer(manager)
NetStart ==
  /\ isHost \in BOOLEAN
  /\ isMobile \in BOOLEAN
  /\ isRunning = TRUE
  /\ myKills = 0
  /\ matchResult = "none"
  /\ networkPlayer = [health |-> PuppetMaxHealth, position |-> Origin,
                      targetPosition |-> Origin,
                      velocity |-> Origin, updated |-> FALSE, isShooting |-> FALSE]
  /\ inbox = <<>>
  /\ outbox = <<>>
  /\ respawnTimers = 0
  /\ received = 0
  /\ lastEvent = NoEvent
  /\ health = MaxHealth
  /\ position = IF isHost THEN Vec(-20000, 2000, -20000) ELSE Vec(20000, 2000, 20000)

\* the weapon of a session that does not fire
WeaponIdle ==
  /\ useMultiWeapon = TRUE
  /\ currentWeaponType = "rifle"
  /\ currentAmmo = WEAPON_CONFIGS["rifle"].maxAmmo
  /\ reserveAmmo = WEAPON_CONFIGS["rifle"].reserveAmmo
  /\ timeSinceLastShot = SinceCap
  /\ isReloading = FALSE
  /\ reloadTimer = 0
  /\ projectiles = <<>>
  /\ lastFire = NoFire
  /\ lastReload = NoReload
  /\ sinceAccepted = -1
  /\ switches = 0
  /\ shotCount = 0
  /\ putAway = NeverPutAway
  /\ script = NoScript

----------------------------------------------------------------------------
(* Projectile-hit resolver and enemy life cycle (Game, Enemy, CollisionManager) *)

MaxProjectiles == 2    \* projectiles in flight in the combat slice
MaxEnemies == 2        \* enemies in the active list of the combat slice, the boss apart
MaxFrames == 6         \* frames of the combat slice per behaviour
MaxFired == 4          \* volleys fired in the combat slice
MaxKills == 11         \* kills explored per behaviour

EnemyTypes == {"rifle", "smg", "heavy", "boss"}
RespawnTypes == {"rifle", "smg", "heavy"}
KillsPerBoss == 10     \* the respawn timeout: kills % 10 === 0

\* ENEMY_CONFIGS; attackRate10 = 10 * attackRate, scale10 = 10 * scale
ENEMY_CONFIGS ==
  [t \in EnemyTypes |->
     CASE t = "rifle" -> [health |-> 80, damage |-> 15, attackRate10 |-> 8, scale10 |-> 10]
       [] t = "smg"   -> [health |-> 60, damage |-> 8, attackRate10 |-> 20, scale10 |-> 9]
       [] t = "heavy" -> [health |-> 200, damage |-> 25, attackRate10 |-> 5, scale10 |-> 13]
       [] t = "boss"  -> [health |-> 1000, damage |-> 40, attackRate10 |-> 15, scale10 |-> 25]]

HitFlashTicks == 12    \* hitTimer = 0.2 s
DeathTimerCap == 36    \* the death animation is constant once deathTimer exceeds pi/6 s, 0.5 s
HeadshotRadius == 400  \* distanceTo(headPos) < 0.4
HitMargin == 100       \* enemyBox.expandByScalar(0.1)
HealthPickup == 50     \* POWERUP_CONFIGS.health.value
CombatSteps == {6}     \* frame length of the combat slice: 100 ms

\* new Enemy(scene, position, type)
NewEnemy(type) ==
  [type |-> type, health |-> ENEMY_CONFIGS[type].health, attackCooldown |-> 0,
   isHit |-> FALSE, hitTimer |-> 0, isDying |-> FALSE, deathTimer |-> 0,
   \* whether the enemy stands within 2 of the player (enemies spawn 30 or more away)
   near |-> FALSE]

\* ---- geometry, relative to the enemy's mesh.position ----

\* the mesh parts with pose-independent extents: centre height and half extents of
\* the part's geometry bounding box in the mesh frame (createMesh, createBossMesh).
\* Limbs and the weapon swing with the walk animation and only widen the box.
MeshParts(type) ==
  IF type = "boss"
  THEN <<[name |-> "torso", cy |-> 1500, hx |-> 450, hy |-> 600, hz |-> 300],
         [name |-> "head", cy |-> 2500, hx |-> 250, hy |-> 250, hz |-> 250],
         [name |-> "healthBarBg", cy |-> 3500, hx |-> 1000, hy |-> 75, hz |-> 0]>>
  ELSE <<[name |-> "torso", cy |-> 800, hx |-> 500, hy |-> 600, hz |-> 450],
         [name |-> "head", cy |-> 1700, hx |-> 450, hy |-> 450, hz |-> 450],
         [name |-> "healthBarBg", cy |-> 2400, hx |-> 400, hy |-> 60, hz |-> 0]>>

\* rotations about the vertical axis left by mesh.lookAt: <<5 cos, 5 sin>>
Yaws == {<<5, 0>>, <<3, 4>>}

\* the world-axis box of one part: the part's box under mesh scale and yaw
PartBox(part, scale10, yaw) ==
  LET hx == ((Abs(yaw[1]) * part.hx + Abs(yaw[2]) * part.hz) * scale10) \div 50
      hz == ((Abs(yaw[2]) * part.hx + Abs(yaw[1]) * part.hz) * scale10) \div 50
      hy == (part.hy * scale10) \div 10
      cy == (part.cy * scale10) \div 10
  IN [min |-> Vec(-hx, cy - hy, -hz), max |-> Vec(hx, cy + hy, hz)]

\* Box3.union
union(a, b) ==
  [min |-> Vec(Min(a.min.x, b.min.x), Min(a.min.y, b.min.y), Min(a.min.z, b.min.z)),
   max |-> Vec(Max(a.max.x, b.max.x), Max(a.max.y, b.max.y), Max(a.max.z, b.max.z))]

\* Enemy.getBoundingBox(): Box3.setFromObject(mesh), the union of the part boxes
getBoundingBox(enemy, yaw) ==
  LET parts == MeshParts(enemy.type)
      k == ENEMY_CONFIGS[enemy.type].scale10
  IN union(PartBox(parts[1], k, yaw), union(PartBox(parts[2], k, yaw), PartBox(parts[3], k, yaw)))

\* Box3.expandByScalar
expandByScalar(box, s) ==
  [min |-> Vec(box.min.x - s, box.min.y - s, box.min.z - s),
   max |-> Vec(box.max.x + s, box.max.y + s, box.max.z + s)]

\* Box3.containsPoint
containsPoint(box, p) ==
  /\ box.min.x <= p.x /\ p.x <= box.max.x
  /\ box.min.y <= p.y /\ p.y <= box.max.y
  /\ box.min.z <= p.z /\ p.z <= box.max.z

\* Enemy.getHeadPosition(): world position of the part named 'head'
getHeadPosition(enemy) ==
  LET head == MeshParts(enemy.type)[2]
  IN Vec(0, (head.cy * ENEMY_CONFIGS[enemy.type].scale10) \div 10, 0)

\* a headshot test that accepts anything within a metre of the head
isHeadshot_Wide(p, enemy) ==
  LET h == getHeadPosition(enemy)
  IN (p.x - h.x) * (p.x - h.x) + (p.y - h.y) * (p.y - h.y) + (p.z - h.z) * (p.z - h.z)
       < 1000 * 1000

\* projectilePos.distanceTo(headPos) < 0.4
isHeadshot(p, enemy) ==
  LET h == getHeadPosition(enemy)
  IN (p.x - h.x) * (p.x - h.x) + (p.y - h.y) * (p.y - h.y) + (p.z - h.z) * (p.z - h.z)
       < HeadshotRadius * HeadshotRadius

\* CollisionManager.checkProjectileHit(projectile, enemy)
checkProjectileHit(p, enemy, yaw) ==
  containsPoint(expandByScalar(getBoundingBox(enemy, yaw), HitMargin), p)

\* where a projectile is after projectile.update, as an offset from the head anchor
\* of the enemy it flies at
Offsets == {Vec(390, 0, 0), Vec(230, 230, 230), Vec(283, 0, 283),
            Vec(0, -800, 0), Vec(0, 0, 900)}
FarAway == Vec(0, 0, 20000)

\* the fate of one projectile in a frame: expired, flying at no enemy, or near
\* enemy number target at the given offset from its head
Aims(n) ==
  {[kind |-> k, target |-> 0, offset |-> FarAway] : k \in {"expired", "miss"}}
    \cup [kind : {"at"}, target : 1..n, offset : Offsets]

\* position of the projectile relative to enemy number j
RelativePosition(aim, j, enemy) ==
  IF aim.kind = "at" /\ aim.target = j
  THEN LET h == getHeadPosition(enemy)
       IN Vec(h.x + aim.offset.x, h.y + aim.offset.y, h.z + aim.offset.z)
  ELSE FarAway

\* ---- Enemy ----

\* an Enemy.takeDamage that clamps the health at 0
enemyTakeDamage_Clamped(enemy, amount, headshot) ==
  LET finalDamage == IF headshot THEN amount * 2 ELSE amount
      h == Max(0, enemy.health - finalDamage)
  IN [enemy EXCEPT !.health = h, !.isHit = TRUE, !.hitTimer = HitFlashTicks,
                   !.isDying = (enemy.isDying \/ h <= 0)]

\* Enemy.takeDamage(amount, isHeadshot)
enemyTakeDamage(enemy, amount, headshot) ==
  LET finalDamage == IF headshot THEN amount * 2 ELSE amount
      h == enemy.health - finalDamage
  IN [enemy EXCEPT !.health = h, !.isHit = TRUE, !.hitTimer = HitFlashTicks,
                   !.isDying = (enemy.isDying \/ h <= 0)]

\* Enemy.isDead()
isDead(enemy) == enemy.health <= 0

\* Enemy.canAttack()
canAttack(enemy) == enemy.attackCooldown <= 0 /\ ~enemy.isDying /\ ~enemy.isHit

\* Enemy.attack(): attackCooldown = 1 / attackRate
attack(enemy) ==
  [enemy EXCEPT !.attackCooldown =
     (10 * TicksPerSecond) \div ENEMY_CONFIGS[enemy.type].attackRate10]

\* Enemy.update(delta, playerPosition): timers and death animation
enemyUpdate(enemy, delta) ==
  IF enemy.isDying
  THEN [enemy EXCEPT !.deathTimer = Min(DeathTimerCap, enemy.deathTimer + delta)]
  ELSE LET cooled == IF enemy.attackCooldown > 0
                     THEN [enemy EXCEPT !.attackCooldown = enemy.attackCooldown - delta]
                     ELSE enemy
       IN IF cooled.isHit
          THEN [cooled EXCEPT !.hitTimer = cooled.hitTimer - delta,
                              !.isHit = (cooled.hitTimer - delta > 0)]
          ELSE cooled

\* ---- Game.updateProjectiles ----

RemoveAt(seq, i) == SubSeq(seq, 1, i - 1) \o SubSeq(seq, i + 1, Len(seq))

CombatRec == [projectiles |-> projectiles, enemies |-> enemies, kills |-> kills,
              bossSpawned |-> bossSpawned, waveNumber |-> waveNumber,
              respawnPending |-> respawnPending, health |-> health, examined |-> {}]

\* the kill branch: kills++, boss bookkeeping, enemy.destroy(), enemies.splice(j, 1),
\* and the respawn timeout
killEnemy_KeepFlag(c, j) ==
  LET wasBoss == c.enemies[j].type = "boss"
  IN [c EXCEPT !.kills = c.kills + 1,
               !.waveNumber = IF wasBoss THEN c.waveNumber + 1 ELSE c.waveNumber,
               !.enemies = RemoveAt(c.enemies, j),
               !.respawnPending = c.respawnPending + 1]

killEnemy(c, j) ==
  LET wasBoss == c.enemies[j].type = "boss"
  IN [c EXCEPT !.kills = c.kills + 1,
               !.bossSpawned = IF wasBoss THEN FALSE ELSE c.bossSpawned,
               !.waveNumber = IF wasBoss THEN c.waveNumber + 1 ELSE c.waveNumber,
               !.enemies = RemoveAt(c.enemies, j),
               !.respawnPending = c.respawnPending + 1]

\* the hit branch for projectile i and enemy j
hitEnemy(c, i, j, headshot) ==
  LET hurt == enemyTakeDamage(c.enemies[j], c.projectiles[i].damage, headshot)
      c1 == [c EXCEPT !.enemies[j] = hurt, !.projectiles = RemoveAt(c.projectiles, i)]
  IN IF isDead(hurt) THEN killEnemy(c1, j) ELSE c1

\* what the resolver did with one projectile and one enemy
Examined(c, c2, j, headshot, hit) ==
  LET before == c.enemies[j]
      after == enemyTakeDamage(before, ProjectileDamage, headshot)
  IN [type |-> before.type, headshot |-> headshot, hit |-> hit,
      dealt |-> IF hit THEN before.health - after.health ELSE 0,
      healthAfter |-> IF hit THEN after.health ELSE before.health,
      killed |-> hit /\ c2.kills > c.kills,
      points |-> IF hit /\ c2.kills > c.kills THEN (IF headshot THEN 150 ELSE 100) ELSE 0,
      dyingAfter |-> hit /\ after.isDying,
      removed |-> Len(c2.enemies) < Len(c.enemies)]

\* the inner loop: enemies j, j - 1, .. 1 against projectile i
RECURSIVE scanEnemies(_, _, _, _, _)
scanEnemies(c, i, j, aim, yaw) ==
  IF j = 0 THEN c
  ELSE LET enemy == c.enemies[j]
           p == RelativePosition(aim, j, enemy)
           headshot == isHeadshot(p, enemy)
           hit == checkProjectileHit(p, enemy, yaw)
           c2 == IF hit THEN hitEnemy(c, i, j, headshot) ELSE c
           seen == [c2 EXCEPT !.examined = c.examined \cup {Examined(c, c2, j, headshot, hit)}]
       IN IF hit THEN seen ELSE scanEnemies(seen, i, j - 1, aim, yaw)

\* the outer loop: projectiles i, i - 1, .. 1; aims[i] is where projectile i is
RECURSIVE scanProjectiles(_, _, _, _)
scanProjectiles(c, i, aims, yaw) ==
  IF i = 0 THEN c
  ELSE IF aims[i].kind = "expired"
  THEN scanProjectiles([c EXCEPT !.projectiles = RemoveAt(c.projectiles, i)], i - 1, aims, yaw)
  ELSE scanProjectiles(scanEnemies(c, i, Len(c.enemies), aims[i], yaw), i - 1, aims, yaw)

\* Game.updateProjectiles(delta); aims[i] is where projectile.update left projectile i,
\* yaw is the way the enemies face
updateProjectiles(c, aims, yaw) == scanProjectiles(c, Len(c.projectiles), aims, yaw)

\* ---- Game.updateEnemies ----

\* enemies 1 .. n in order
RECURSIVE scanAttacks(_, _, _)
scanAttacks(c, k, delta) ==
  IF k > Len(c.enemies) THEN c
  ELSE LET updated == enemyUpdate(c.enemies[k], delta)
           strikes == updated.near /\ canAttack(updated)
           c2 == IF strikes
                 THEN [c EXCEPT !.enemies[k] = attack(updated),
                                !.health = takeDamage(c.health, ENEMY_CONFIGS[updated.type].damage)]
                 ELSE [c EXCEPT !.enemies[k] = updated]
       IN scanAttacks(c2, k + 1, delta)

\* Game.updateEnemies(delta)
updateEnemies(c, delta) == scanAttacks(c, 1, delta)

\* ---- actions of the combat slice ----

\* one frame of the solo game loop: updateProjectiles, then updateEnemies
GameLoopCombat(step, aims, yaw) ==
  /\ frames < MaxFrames
  /\ \E c2 \in {updateEnemies(updateProjectiles(CombatRec, aims, yaw), Min(step, MaxDelta))} :
     /\ c2.kills <= MaxKills
     /\ frames' = frames + 1
     /\ projectiles' = c2.projectiles
     /\ enemies' = c2.enemies
     /\ kills' = c2.kills
     /\ bossSpawned' = c2.bossSpawned
     /\ waveNumber' = c2.waveNumber
     /\ respawnPending' = c2.respawnPending
     /\ health' = c2.health
     /\ examined' = c2.examined
     /\ UNCHANGED <<position, netVars, weaponObs, moveVars, syncVars, puppetVars, roomVars, grenadeVars, timerVars>>
     /\ UNCHANGED <<useMultiWeapon, currentWeaponType, currentAmmo, reserveAmmo,
                    timeSinceLastShot, isReloading, reloadTimer>>

\* the fire handling of a frame hands the projectiles of shoot() to the game
FireProjectiles ==
  /\ shotCount < MaxFired
  /\ Len(projectiles) + Len(Pellets(currentWeaponType)) <= MaxProjectiles
  /\ projectiles' = projectiles \o Pellets(currentWeaponType)
  /\ shotCount' = shotCount + 1
  /\ examined' = {}
  /\ UNCHANGED <<enemies, kills, bossSpawned, waveNumber, respawnPending, frames>>
  /\ UNCHANGED <<playerVars, netVars, moveVars, syncVars, puppetVars, roomVars, grenadeVars, timerVars>>
  /\ UNCHANGED <<lastFire, lastReload, sinceAccepted, switches, putAway, script>>
  /\ UNCHANGED <<useMultiWeapon, currentWeaponType, currentAmmo, reserveAmmo,
                 timeSinceLastShot, isReloading, reloadTimer>>

\* Game.spawnBoss()
spawnBoss(c) ==
  IF c.bossSpawned THEN c
  ELSE [c EXCEPT !.bossSpawned = TRUE, !.enemies = Append(c.enemies, NewEnemy("boss"))]

\* the respawn timeout of a kill fires: a new enemy, and the boss every 10 kills
RespawnEnemy(type) ==
  LET c1 == [CombatRec EXCEPT !.enemies = Append(enemies, NewEnemy(type)),
                              !.respawnPending = respawnPending - 1]
      c2 == IF c1.kills > 0 /\ c1.kills % KillsPerBoss = 0 /\ ~c1.bossSpawned
            THEN spawnBoss(c1) ELSE c1
  IN /\ respawnPending > 0
     /\ Len(c1.enemies) <= MaxEnemies
     /\ enemies' = c2.enemies
     /\ bossSpawned' = c2.bossSpawned
     /\ respawnPending' = c2.respawnPending
     /\ examined' = {}
     /\ UNCHANGED <<kills, waveNumber, frames>>
     /\ UNCHANGED <<playerVars, netVars, weaponVars, weaponObs, moveVars, syncVars, puppetVars, roomVars, grenadeVars, timerVars>>

\* the player walks over a health power-up: collectPowerUp
CollectHealth ==
  /\ health < MaxHealth
  /\ health' = heal(health, HealthPickup)
  /\ examined' = {}
  /\ UNCHANGED <<enemies, kills, bossSpawned, waveNumber, respawnPending, frames>>
  /\ UNCHANGED <<position, netVars, weaponVars, weaponObs, moveVars, syncVars, puppetVars, roomVars, grenadeVars, timerVars>>

\* the combat state of a session without enemies (startMultiplayer clears them)
CombatIdle ==
  /\ enemies = <<>>
  /\ kills = 0
  /\ bossSpawned = FALSE
  /\ waveNumber = 1
  /\ respawnPending = 0
  /\ examined = {}
  /\ frames = 0

\* a solo game in progress: the 9 enemies of the first wave, kills so far, and one
\* respawn timeout pending per kill whose replacement has not arrived
CombatStart ==
  /\ \/ /\ kills = 8
        /\ bossSpawned = FALSE
        /\ enemies = <<[NewEnemy("rifle") EXCEPT !.near = TRUE], NewEnemy("smg")>>
        /\ respawnPending = 7
     \/ /\ kills = 10
        /\ bossSpawned = TRUE
        /\ enemies = <<NewEnemy("heavy"), [NewEnemy("boss") EXCEPT !.health = 50]>>
        /\ respawnPending = 9
  /\ waveNumber = 1
  /\ examined = {}
  /\ frames = 0
  /\ health = MaxHealth
  /\ position = Vec(0, 1700, 0)

\* a solo game one kill before the first boss milestone: two wounded enemies
\* near the end of their health, every earlier respawn timeout has fired
MilestoneStart ==
  /\ kills = KillsPerBoss - 1
  /\ bossSpawned = FALSE
  /\ enemies = <<[NewEnemy("rifle") EXCEPT !.near = TRUE, !.health = 20],
                 [NewEnemy("smg") EXCEPT !.health = 10]>>
  /\ respawnPending = 0
  /\ waveNumber = 1
  /\ examined = {}
  /\ frames = 0
  /\ health = MaxHealth
  /\ position = Vec(0, 1700, 0)

----------------------------------------------------------------------------
(* Movement and collision (Player.update, Enemy.update, CollisionManager, Terrain) *)

\* ---- bounds of the movement slice ----
ArenaRadius == 2000    \* the player is followed within this distance of ArenaCentre

MoveSteps == {6}       \* frame length of the movement slice: 100 ms, the delta cap

moveSpeed == 10000     \* Player.moveSpeed = 10 per second
jumpForce == 8000      \* Player.jumpForce = 8 per second
gravity == 20000       \* Player.gravity = 20 per second squared
playerHeight == 1700   \* Player.playerHeight = 1.7
playerRadius == 500    \* CollisionManager.playerRadius = 0.5
PlayerBoxHeight == 1600  \* the player box is 1.6 high ...
PlayerBoxDrop == 500     \* ... and centred 0.5 below the eye
WorldBounds == 140000  \* Player.update: const bounds = 140
EnemyBoxSize == Vec(1000, 2000, 1000)  \* the enemy test box, centred 1 above the mesh
EnemyBoxRise == 1000
terrainSize == 300000  \* Terrain.terrainSize = 300
segmentSize == 3000    \* terrainSize / segments, segments = 100

\* EnemyConfig.speed, millimetres per second
EnemySpeed ==
  [t \in EnemyTypes |->
     CASE t = "rifle" -> 2500 [] t = "smg" -> 5000 [] t = "heavy" -> 1500 [] t = "boss" -> 3000]

\* Enemy.update: attackRange
attackRange(type) == IF type = "smg" THEN 8000 ELSE IF type = "heavy" THEN 15000 ELSE 12000

\* ---- Terrain ----

\* Terrain.heightData[gridZ][gridX] as createGround fills it, in millimetres, for the
\* rows 54..59 (z = 12..27) and the columns 50..56 (x = 0..18) of the grid
heightData ==
  << <<  41,   50,  633,  807, 1026, 1289, 1592>>,
     <<  46,   56,  693,  863, 1074, 1327, 1619>>,
     <<  49,   60,  734,  903, 1110, 1355, 1640>>,
     <<  50,   62,  756,  925, 1129, 1369, 1647>>,
     <<  51,   62,  761,  929, 1130, 1366, 1637>>,
     <<  50,   61,  752,  918, 1115, 1345, 1610>> >>

\* Terrain.getHeightAt(x, z)
getHeightAt(x, z) ==
  LET halfSize == terrainSize \div 2
      gridX == (x + halfSize) \div segmentSize
      gridZ == (z + halfSize) \div segmentSize
  IN heightData[gridZ - 53][gridX - 49]

\* ---- boxes ----

\* THREE.Box3.setFromCenterAndSize(center, size)
setFromCenterAndSize(center, size) ==
  [min |-> Vec(center.x - size.x \div 2, center.y - size.y \div 2, center.z - size.z \div 2),
   max |-> Vec(center.x + size.x \div 2, center.y + size.y \div 2, center.z + size.z \div 2)]

\* THREE.Box3.intersectsBox(box): touching boxes intersect
intersectsBox(a, b) ==
  ~ \/ b.max.x < a.min.x \/ b.min.x > a.max.x
    \/ b.max.y < a.min.y \/ b.min.y > a.max.y
    \/ b.max.z < a.min.z \/ b.min.z > a.max.z

\* the loop "for (const collider of colliders) if (box.intersectsBox(collider))"
hitsCollider(box, cs) == \E collider \in cs : intersectsBox(box, collider)

\* the player box of CollisionManager at eye position (x, y, z)
playerBox(x, y, z) ==
  setFromCenterAndSize(Vec(x, y - PlayerBoxDrop, z),
                       Vec(playerRadius * 2, PlayerBoxHeight, playerRadius * 2))

\* CollisionManager.checkPlayerCollision(position, movement), movement = (dx, 0, dz)
checkPlayerCollision(pos, dx, dz, cs) ==
  hitsCollider(playerBox(pos.x + dx, pos.y, pos.z + dz), cs)

\* CollisionManager.checkPlayerCollisionAxis(position, movementX, movementZ)
checkPlayerCollisionAxis(pos, dx, dz, cs) ==
  [canMoveX |-> ~hitsCollider(playerBox(pos.x + dx, pos.y, pos.z), cs),
   canMoveZ |-> ~hitsCollider(playerBox(pos.x, pos.y, pos.z + dz), cs)]

\* the enemy test box of Enemy.update for a mesh at height y moved to (x, z)
enemyBox(x, y, z) == setFromCenterAndSize(Vec(x, y + EnemyBoxRise, z), EnemyBoxSize)

\* ---- static colliders of the world (Terrain.createCover, Terrain.createRocks) ----

\* createCrate(8, 20) with rotation 0: a 2 x 2 x 2 box centred at height 1
Crate == [min |-> Vec(7000, 0, 19000), max |-> Vec(9000, 2000, 21000)]

\* a rock of createRocks next to the crate (rocks lie 20 to 80 from the centre at
\* height 0.5, with a random radius, rotation and scale)
Rock == [min |-> Vec(10000, -1000, 16000), max |-> Vec(12000, 2000, 18000)]

\* ---- unit vectors with rational components, times 5 ----
UnitVectors == {v \in (-5..5) \X (-5..5) : v[1] * v[1] + v[2] * v[2] = 25}

\* camera.getWorldDirection with y zeroed and normalised, times 5
Facings == {<<0, -5>>, <<4, 3>>}

\* the pressed movement keys as the normalised direction vector (x, z) of Player.update
Keys == {<<0, 0>>, <<0, -1>>, <<0, 1>>, <<-1, 0>>, <<1, 0>>}

ArenaCentre == Vec(9000, 0, 18000)

\* where an enemy's target stands still while the enemy approaches
StandPoints == {Vec(19300, 0, 25900), Vec(13800, 0, 29500), Vec(16700, 0, 28400)}

InArena(x, z) ==
  \/ Abs(x - ArenaCentre.x) <= ArenaRadius /\ Abs(z - ArenaCentre.z) <= ArenaRadius
  \/ \E s \in StandPoints : s.x = x /\ s.z = z

NoMove == [actor |-> "none", dx |-> 0, dz |-> 0, hitFull |-> FALSE,
           hitX |-> FALSE, hitZ |-> FALSE, movedX |-> 0, movedZ |-> 0]

\* ---- Player.update ----

\* the horizontal position Player.update leaves the camera at, before the clamp
resolvePlayer_Unchecked(pos, dx, dz, cs) ==
  [x |-> pos.x + dx, z |-> pos.z + dz]

resolvePlayer(pos, dx, dz, cs) ==
  IF ~checkPlayerCollision(pos, dx, dz, cs)
  THEN [x |-> pos.x + dx, z |-> pos.z + dz]
  ELSE [x |-> pos.x, z |-> pos.z]

\* Math.max(-bounds, Math.min(bounds, v))
clampToBounds(v) == Max(-WorldBounds, Min(WorldBounds, v))

\* Player.update(delta, input, collision)
PlayerUpdate(delta, key, facing, jump) ==
  LET \* right = cameraDirection x (0, 1, 0) = (-facing.z, 0, facing.x)
      moveX5 == (-facing[2]) * key[1] + facing[1] * (-key[2])
      moveZ5 == facing[1] * key[1] + facing[2] * (-key[2])
      velocityX == (moveX5 * moveSpeed) \div 5
      velocityZ == (moveZ5 * moveSpeed) \div 5
      jumped == jump /\ isGrounded
      airborne == jumped \/ ~isGrounded
      vy1 == IF jumped THEN jumpForce ELSE velocityY
      vy2 == IF airborne THEN vy1 - (gravity * delta) \div TicksPerSecond ELSE vy1
      dx == (velocityX * delta) \div TicksPerSecond
      dz == (velocityZ * delta) \div TicksPerSecond
      newY == position.y + (vy2 * delta) \div TicksPerSecond
  IN /\ InArena(position.x + dx, position.z + dz)
     /\ LET groundHeight == getHeightAt(position.x + dx, position.z + dz) + playerHeight
            landed == newY <= groundHeight
            axis == checkPlayerCollisionAxis(position, dx, dz, colliders)
            to == resolvePlayer(position, dx, dz, colliders)
            x2 == clampToBounds(to.x)
            z2 == clampToBounds(to.z)
        IN /\ position' = Vec(x2, IF landed THEN groundHeight ELSE newY, z2)
           /\ velocityY' = IF landed THEN 0 ELSE vy2
           /\ isGrounded' = (landed \/ ~airborne)
           /\ lastMove' = [actor |-> "player", dx |-> dx, dz |-> dz,
                           hitFull |-> checkPlayerCollision(position, dx, dz, colliders),
                           hitX |-> ~axis.canMoveX, hitZ |-> ~axis.canMoveZ,
                           movedX |-> x2 - position.x, movedZ |-> z2 - position.z]
     /\ UNCHANGED <<colliders, meshPosition, health>>
     /\ UNCHANGED <<weaponVars, weaponObs, netVars, combatVars, syncVars, puppetVars, roomVars, grenadeVars, timerVars>>

\* ---- Enemy.update ----

\* the horizontal position the approach step of Enemy.update leaves the mesh at
approach(mesh, sx, sz, cs) ==
  LET canMove == ~hitsCollider(enemyBox(mesh.x + sx, mesh.y, mesh.z + sz), cs)
      canSlideX == ~hitsCollider(enemyBox(mesh.x + sx, mesh.y, mesh.z), cs)
      canSlideZ == ~hitsCollider(enemyBox(mesh.x, mesh.y, mesh.z + sz), cs)
  IN IF canMove THEN [x |-> mesh.x + sx, z |-> mesh.z + sz]
     ELSE IF canSlideX THEN [x |-> mesh.x + sx, z |-> mesh.z]
     ELSE IF canSlideZ THEN [x |-> mesh.x, z |-> mesh.z + sz]
     ELSE [x |-> mesh.x, z |-> mesh.z]

\* Enemy.update(delta, playerPosition) of enemies[1], with playerPosition the camera
EnemyUpdate(delta) ==
  /\ enemies # <<>>
  /\ LET enemy == enemies[1]
         updated == enemyUpdate(enemy, delta)
         offX == position.x - meshPosition.x
         offZ == position.z - meshPosition.z
         far == offX * offX + offZ * offZ > attackRange(enemy.type) * attackRange(enemy.type)
         speed == IF updated.isHit THEN (EnemySpeed[enemy.type] * 3) \div 10
                  ELSE EnemySpeed[enemy.type]
     IN /\ enemies' = [enemies EXCEPT ![1] = updated]
        /\ IF enemy.isDying
           THEN /\ meshPosition' = [meshPosition EXCEPT
                     !.y = Max(-500, 0 - (updated.deathTimer * 1000) \div TicksPerSecond)]
                /\ lastMove' = NoMove
           ELSE IF ~far
           THEN /\ meshPosition' = [meshPosition EXCEPT
                     !.y = getHeightAt(meshPosition.x, meshPosition.z)]
                /\ lastMove' = NoMove
           ELSE \* direction.normalize(): the unit vector along the offset
                \E d \in UnitVectors :
                  /\ offX * d[2] = offZ * d[1]
                  /\ offX * d[1] + offZ * d[2] > 0
                  /\ LET sx == (d[1] * speed * delta) \div (5 * TicksPerSecond)
                         sz == (d[2] * speed * delta) \div (5 * TicksPerSecond)
                         to == approach(meshPosition, sx, sz, colliders)
                     IN /\ meshPosition' = Vec(to.x, getHeightAt(to.x, to.z), to.z)
                        /\ lastMove' =
                             [actor |-> "enemy", dx |-> sx, dz |-> sz,
                              hitFull |-> hitsCollider(enemyBox(meshPosition.x + sx,
                                            meshPosition.y, meshPosition.z + sz), colliders),
                              hitX |-> hitsCollider(enemyBox(meshPosition.x + sx,
                                            meshPosition.y, meshPosition.z), colliders),
                              hitZ |-> hitsCollider(enemyBox(meshPosition.x,
                                            meshPosition.y, meshPosition.z + sz), colliders),
                              movedX |-> to.x - meshPosition.x,
                              movedZ |-> to.z - meshPosition.z]
  /\ UNCHANGED <<colliders, velocityY, isGrounded, playerVars>>
  /\ UNCHANGED <<kills, bossSpawned, waveNumber, respawnPending, examined, frames>>
  /\ UNCHANGED <<weaponVars, weaponObs, netVars, syncVars, puppetVars, roomVars, grenadeVars, timerVars>>

\* ---- Game.updateEnemies ----

EngageDistance == 2000   \* Game.updateEnemies: distance < 2

\* where Enemy.update leaves the mesh of a live enemy that walks in the open
chase(enemy, mesh, target, delta, cs) ==
  LET offX == target.x - mesh.x
      offZ == target.z - mesh.z
      far == offX * offX + offZ * offZ > attackRange(enemy.type) * attackRange(enemy.type)
      speed == IF enemy.isHit THEN (EnemySpeed[enemy.type] * 3) \div 10
               ELSE EnemySpeed[enemy.type]
      d == CHOOSE u \in UnitVectors : offX * u[2] = offZ * u[1] /\ offX * u[1] + offZ * u[2] > 0
      to == approach(mesh, (d[1] * speed * delta) \div (5 * TicksPerSecond),
                     (d[2] * speed * delta) \div (5 * TicksPerSecond), cs)
  IN IF far THEN Vec(to.x, getHeightAt(to.x, to.z), to.z)
     ELSE Vec(mesh.x, getHeightAt(mesh.x, mesh.z), mesh.z)

\* Game.updateEnemies(delta) with one live enemy: enemy.update, then the attack
\* when the enemy is within the engage distance of the camera
ChaseFrame(delta) ==
  /\ enemies # <<>>
  /\ ~enemies[1].isDying
  /\ LET updated == enemyUpdate(enemies[1], delta)
         mesh == chase(updated, meshPosition, position, delta, colliders)
         distance2 == (mesh.x - position.x) * (mesh.x - position.x)
                        + (mesh.y - position.y) * (mesh.y - position.y)
                        + (mesh.z - position.z) * (mesh.z - position.z)
         strikes == distance2 < EngageDistance * EngageDistance /\ canAttack(updated)
     IN /\ meshPosition' = mesh
        /\ enemies' = [enemies EXCEPT ![1] = IF strikes THEN attack(updated) ELSE updated]
        /\ health' = IF strikes
                     THEN takeDamage(health, ENEMY_CONFIGS[updated.type].damage)
                     ELSE health
        /\ lastMove' = [NoMove EXCEPT !.actor = "enemy",
                                      !.movedX = mesh.x - meshPosition.x,
                                      !.movedZ = mesh.z - meshPosition.z]
  /\ UNCHANGED <<colliders, velocityY, isGrounded, position>>
  /\ UNCHANGED <<kills, bossSpawned, waveNumber, respawnPending, examined, frames>>
  /\ UNCHANGED <<weaponVars, weaponObs, netVars, syncVars, puppetVars, roomVars, grenadeVars, timerVars>>

\* ---- initial states of the movement slice ----

\* no world loaded into the slice: nothing to collide with, nobody moving
MoveIdle ==
  /\ colliders = {}
  /\ velocityY = 0
  /\ isGrounded = TRUE
  /\ meshPosition = Vec(0, 0, 0)
  /\ lastMove = NoMove

\* the player standing on the ground at (x, z)
Standing(x, z) ==
  /\ position = Vec(x, getHeightAt(x, z) + playerHeight, z)
  /\ velocityY = 0
  /\ isGrounded = TRUE

\* a solo game in progress around the crate of createCover at (8, 20): either the
\* player walks about the crate with no enemy near, or stands still at a distance
\* while an smg enemy approaches past the crate
MoveStart ==
  /\ colliders = {Crate, Rock}
  /\ \/ /\ Standing(ArenaCentre.x, ArenaCentre.z)
        /\ enemies = <<>>
        /\ meshPosition = Vec(0, 0, 0)
     \/ /\ Standing(19300, 25900)
        /\ enemies = <<NewEnemy("smg")>>
        /\ meshPosition = Vec(5300, getHeightAt(5300, 15400), 15400)
     \/ /\ Standing(13800, 29500)
        /\ enemies = <<NewEnemy("smg")>>
        /\ meshPosition = Vec(5400, getHeightAt(5400, 18300), 18300)
     \/ /\ Standing(16700, 28400)
        /\ enemies = <<NewEnemy("smg")>>
        /\ meshPosition = Vec(6800, getHeightAt(6800, 15200), 15200)
  /\ lastMove = NoMove
  /\ health = MaxHealth
  /\ kills = 0
  /\ bossSpawned = FALSE
  /\ waveNumber = 1
  /\ respawnPending = 0
  /\ examined = {}
  /\ frames = 0

\* a solo game in which the player stands still in the open at (20, 25) and one
\* enemy of the first wave starts 18.5 to 19.5 west of it, the crate and the rock off
\* the line between them
ChaseStart ==
  /\ colliders = {Crate, Rock}
  /\ Standing(20000, 25000)
  /\ \E type \in RespawnTypes, x \in {500, 1000, 1500} :
       /\ enemies = <<NewEnemy(type)>>
       /\ meshPosition = Vec(x, getHeightAt(x, 25000), 25000)
  /\ lastMove = NoMove
  /\ health = MaxHealth
  /\ kills = 0
  /\ bossSpawned = FALSE
  /\ waveNumber = 1
  /\ respawnPending = 0
  /\ examined = {}
  /\ frames = 0

----------------------------------------------------------------------------
(* State synchronisation (Game.sendPlayerState, MultiplayerManager.sendState) *)

MaxLossFrames == 2     \* frames counted after the connection closed

STATE_SEND_RATE == 3   \* Game.STATE_SEND_RATE = 50 ms
posThreshold == 50     \* hasStateChanged: posThreshold = 0.05
rotThreshold == 20     \* hasStateChanged: rotThreshold = 0.02 rad, in milliradians
SyncSteps == {1, 3}    \* frame lengths of the synchronisation slice: 16.7 ms and 50 ms

\* Math.round(v * 100) / 100 for v in thousandths
round100(v) == ((v + 5) \div 10) * 10

\* a PlayerState {x, y, z, r, h, s}; known is FALSE for null
PlayerState(x, y, z, r, h, s) ==
  [known |-> TRUE, x |-> x, y |-> y, z |-> z, r |-> r, h |-> h, s |-> s]
NoState == [known |-> FALSE, x |-> 0, y |-> 0, z |-> 0, r |-> 0, h |-> 0, s |-> 0]

\* the message {t: 's', d: state}
StateMsg(state) == [t |-> "s", damage |-> 0, x |-> state.x, y |-> state.y, z |-> state.z,
                    h |-> state.h, s |-> state.s, r |-> state.r]

\* MultiplayerManager.hasStateChanged(state)
hasStateChanged_Always(state, sent, pose) == TRUE

hasStateChanged(state, sent, pose) ==
  LET posChanged == \/ Abs(state.x - pose.x) > posThreshold
                    \/ Abs(state.y - pose.y) > posThreshold
                    \/ Abs(state.z - pose.z) > posThreshold
      rotChanged == Abs(state.r - pose.r) > rotThreshold
      healthChanged == ~sent.known \/ state.h # sent.h
      shootingChanged == ~sent.known \/ state.s # sent.s
  IN posChanged \/ rotChanged \/ healthChanged \/ shootingChanged

\* the part of the manager sendState touches
SyncRec == [isConnected |-> isConnected, lastSentState |-> lastSentState,
            lastPose |-> lastPose, outbox |-> <<>>]

\* MultiplayerManager.sendState(state)
sendState(m, state) ==
  IF ~m.isConnected THEN m
  ELSE IF hasStateChanged(state, m.lastSentState, m.lastPose)
  THEN [m EXCEPT !.outbox = Append(m.outbox, StateMsg(state)),
                 !.lastSentState = state,
                 !.lastPose = [x |-> state.x, y |-> state.y, z |-> state.z, r |-> state.r]]
  ELSE m

\* where Player.update leaves the camera, the yaw of the camera direction
\* (milliradians) and the mouse button, frame by frame
SyncPositions == {Vec(20000, 2000, 20000), Vec(20044, 2000, 20000), Vec(20000, 2000, 20100)}
SyncYaws == {0, 26}

\* the offered state differs significantly from the last sent state
Significant(state, sent) ==
  \/ ~sent.known
  \/ Abs(state.x - sent.x) > 50 \/ Abs(state.y - sent.y) > 50 \/ Abs(state.z - sent.z) > 50
  \/ Abs(state.r - sent.r) > 20
  \/ state.h # sent.h
  \/ state.s # sent.s

NoSync == [attempted |-> FALSE, elapsedOK |-> FALSE, prevKnown |-> FALSE,
           significant |-> FALSE, identical |-> FALSE, sent |-> FALSE]

\* one frame of the multiplayer game loop: player.update, then sendPlayerState
GameLoopSync(step, pos, yaw, mouseDown) ==
  /\ isRunning
  /\ isMultiplayer
  /\ position' = pos
  /\ LET elapsed == Min(STATE_SEND_RATE, sinceStateSent + step)
         attempted == ~(elapsed < STATE_SEND_RATE)
         state == PlayerState(round100(pos.x), round100(pos.y), round100(pos.z),
                              round100(yaw), health, IF mouseDown THEN 1 ELSE 0)
         m == IF attempted THEN sendState(SyncRec, state) ELSE SyncRec
     IN /\ sinceStateSent' = IF attempted THEN 0 ELSE elapsed
        /\ lastSentState' = m.lastSentState
        /\ lastPose' = m.lastPose
        /\ outbox' = m.outbox
        /\ lastSync' = [attempted |-> attempted,
                        elapsedOK |-> elapsed >= STATE_SEND_RATE,
                        prevKnown |-> lastSentState.known,
                        significant |-> Significant(state, lastSentState),
                        identical |-> state = lastSentState,
                        sent |-> m.outbox # <<>>]
  /\ framesSinceLoss' = IF isConnected THEN 0 ELSE Min(MaxLossFrames, framesSinceLoss + 1)
  /\ lastEvent' = NoEvent
  /\ UNCHANGED <<isMultiplayer, isConnected, health>>
  /\ UNCHANGED <<isHost, isMobile, isRunning, myKills, matchResult, networkPlayer,
                 inbox, respawnTimers, received>>
  /\ UNCHANGED <<weaponVars, weaponObs, combatVars, moveVars, puppetVars, roomVars, grenadeVars, timerVars>>

\* connection.on('close'): the manager notes the loss and calls the connection
\* callback of the lobby (alert, lobby menu), which leaves the game untouched
ConnectionClose ==
  /\ isConnected
  /\ isConnected' = FALSE
  /\ inbox' = <<>>
  /\ outbox' = <<>>
  /\ lastEvent' = NoEvent
  /\ lastSync' = NoSync
  /\ UNCHANGED <<isMultiplayer, sinceStateSent, lastSentState, lastPose, framesSinceLoss>>
  /\ UNCHANGED <<isHost, isMobile, isRunning, myKills, matchResult, networkPlayer,
                 respawnTimers, received>>
  /\ UNCHANGED <<playerVars, weaponVars, weaponObs, combatVars, moveVars, puppetVars, roomVars, grenadeVars, timerVars>>

\* no multiplayer session
SyncIdle ==
  /\ isMultiplayer = FALSE
  /\ isConnected = FALSE
  /\ sinceStateSent = STATE_SEND_RATE
  /\ lastSentState = NoState
  /\ lastPose = [x |-> 0, y |-> 0, z |-> 0, r |-> 0]
  /\ lastSync = NoSync
  /\ framesSinceLoss = 0

\* the manager of a match that Game.startMultiplayer has just started
SyncStart ==
  /\ isMultiplayer = TRUE
  /\ isConnected = TRUE
  /\ sinceStateSent = STATE_SEND_RATE
  /\ lastSentState = NoState
  /\ lastPose = [x |-> 0, y |-> 0, z |-> 0, r |-> 0]
  /\ lastSync = NoSync
  /\ framesSinceLoss = 0

----------------------------------------------------------------------------
(* The puppet of the remote player (NetworkPlayer in PowerUp.ts) on the clock *)

MaxPuppetTime == 150   \* the clock of the puppet slice stops here (ms)
MaxSnapshots == 3      \* snapshots received per behaviour

FlashTime == 100       \* NetworkPlayer.update: Date.now() - lastShootTime < 100
FlashIntensity == 3    \* NetworkPlayer.update: muzzleFlash.intensity = 3
PuppetFrames == {10, 50, 100}   \* frame lengths of the puppet slice (ms), 100 the delta cap

\* snapshots of the peer: position, health h, shooting flag s
PuppetSnapshots ==
  {Msg("s", 0, Origin, 100, 1), Msg("s", 0, Vec(1000, 0, 0), 100, 0),
   Msg("s", 0, Vec(1000, 0, 0), 75, 1)}

\* Math.sqrt, rounded down
RECURSIVE sqrtBetween(_, _, _)
sqrtBetween(n, lo, hi) ==
  IF lo = hi THEN lo
  ELSE LET mid == (lo + hi + 1) \div 2
       IN IF mid * mid <= n THEN sqrtBetween(n, mid, hi) ELSE sqrtBetween(n, lo, mid - 1)

isqrt(n) == sqrtBetween(n, 0, 32767)

\* Vector3.distanceTo
distanceTo(a, b) ==
  isqrt((a.x - b.x) * (a.x - b.x) + (a.y - b.y) * (a.y - b.y) + (a.z - b.z) * (a.z - b.z))

\* Vector3.lerp(v, alpha), alpha in 1/10000
lerp(a, b, alpha) ==
  Vec(a.x + ((b.x - a.x) * alpha) \div 10000,
      a.y + ((b.y - a.y) * alpha) \div 10000,
      a.z + ((b.z - a.z) * alpha) \div 10000)

\* predictedPosition of NetworkPlayer.update(delta): target + velocity * delta
predict(np, delta) ==
  Vec(np.targetPosition.x + (np.velocity.x * delta) \div 1000,
      np.targetPosition.y + (np.velocity.y * delta) \div 1000,
      np.targetPosition.z + (np.velocity.z * delta) \div 1000)

NoPuppetStep == [kind |-> "none", coalesced |-> 0]

\* connection.on('data') with a state message: handleMessage calls the onState
\* callback, which reads Date.now() in setTargetState and in shoot
PuppetReceive(m) ==
  /\ received < MaxSnapshots
  /\ received' = received + 1
  /\ LET g == handleMessage(GameRec, m, puppetNow - lastUpdateTime)
     IN /\ networkPlayer' = g.networkPlayer
        /\ health' = g.health
        /\ myKills' = g.myKills
        /\ isRunning' = g.isRunning
        /\ matchResult' = g.matchResult
        /\ outbox' = g.outbox
        /\ respawnTimers' = g.respawnTimers
  /\ lastUpdateTime' = puppetNow
  /\ lastShootTime' = IF m.s = 1 THEN puppetNow ELSE lastShootTime
  /\ lastSnapshot' = m
  /\ puppetStep' = [kind |-> "receive",
                    coalesced |-> IF puppetStep.kind = "receive"
                                  THEN Min(2, puppetStep.coalesced + 1) ELSE 1]
  /\ lastEvent' = NoEvent
  /\ UNCHANGED <<puppetNow, predictedPosition, muzzleFlash>>
  /\ UNCHANGED <<isHost, isMobile, inbox, position>>
  /\ UNCHANGED <<weaponVars, weaponObs, combatVars, moveVars, syncVars, roomVars, grenadeVars, timerVars>>

\* a frame of the multiplayer game loop delta ms after the previous one:
\* networkPlayer.update(delta, camera.position)
PuppetFrame(delta) ==
  /\ isRunning
  /\ puppetNow + delta <= MaxPuppetTime
  /\ puppetNow' = puppetNow + delta
  /\ LET predicted == predict(networkPlayer, delta)
         distance == distanceTo(networkPlayer.position, predicted)
         interpSpeed == Min(200, Max(80, distance \div 10))
         flash == networkPlayer.isShooting /\ puppetNow' - lastShootTime < FlashTime
     IN /\ predictedPosition' = predicted
        /\ networkPlayer' =
             [networkPlayer EXCEPT !.position = lerp(@, predicted, interpSpeed * delta),
                                   !.isShooting = flash]
        /\ muzzleFlash' = IF flash THEN FlashIntensity ELSE 0
  /\ puppetStep' = [kind |-> "frame",
                    coalesced |-> IF puppetStep.kind = "receive"
                                  THEN puppetStep.coalesced ELSE 0]
  /\ outbox' = <<>>
  /\ lastEvent' = NoEvent
  /\ UNCHANGED <<lastUpdateTime, lastShootTime, lastSnapshot>>
  /\ UNCHANGED <<isHost, isMobile, isRunning, myKills, matchResult, inbox,
                 respawnTimers, received>>
  /\ UNCHANGED <<playerVars, weaponVars, weaponObs, combatVars, moveVars, syncVars, roomVars, grenadeVars, timerVars>>

\* no puppet on the clock
PuppetIdle ==
  /\ puppetNow = 0
  /\ lastUpdateTime = 0
  /\ lastShootTime = 0
  /\ predictedPosition = Origin
  /\ muzzleFlash = 0
  /\ lastSnapshot = NoMsg
  /\ puppetStep = NoPuppetStep

----------------------------------------------------------------------------
(* Rooms (MultiplayerManager.createRoom, MultiplayerManager.joinRoom) *)

MaxPeers == 3          \* Peer objects created per behaviour

\* what generateRoomCode can return, and what the user can type into the lobby
RoomCodes == {"AB", "CD", "EF"}
TypedCodes == {"ab", "AB", "cd", "xy"}

\* String.toUpperCase()
toUpperCase(s) ==
  CASE s = "ab" -> "AB" [] s = "cd" -> "CD" [] s = "xy" -> "XY" [] OTHER -> s

\* 'fps-battle-' + roomCode
PeerIdOf(code) == <<"fps-battle-", code>>

\* errors a peer reports besides 'unavailable-id'
OtherErrors == {"network", "peer-unavailable"}

\* resolve and reject of a promise: only a pending promise settles
settle(p, state, value) == IF p.state = "pending" THEN [state |-> state, value |-> value] ELSE p

NoPromise == [state |-> "none", value |-> ""]
NoRoom == [mode |-> "none", roomCode |-> "", peerId |-> <<>>, peerState |-> "none",
           connection |-> "none", timeout |-> "none", promise |-> NoPromise,
           peersCreated |-> 0, connects |-> 0]
NoRoomEvent == [event |-> "none", wasPending |-> FALSE, peersBefore |-> 0]
RoomEvent(e) == [event |-> e, wasPending |-> room.promise.state = "pending",
                 peersBefore |-> room.peersCreated]

\* the body of createRoom: a code, a Peer registered under it
newHostPeer(r, code) ==
  [r EXCEPT !.roomCode = code, !.peerId = PeerIdOf(code), !.peerState = "pending",
            !.peersCreated = r.peersCreated + 1]

\* peer.on('error') of createRoom; c1 and c2 are the codes generateRoomCode returns
\* in the handler and in the nested createRoom call
onCreateError_NoRetry(r, type, c1, c2) ==
  [r EXCEPT !.promise = settle(r.promise, "rejected", type)]

onCreateError(r, type, c1, c2) ==
  IF type = "unavailable-id"
  THEN newHostPeer([r EXCEPT !.roomCode = c1, !.peerState = "destroyed"], c2)
  ELSE [r EXCEPT !.promise = settle(r.promise, "rejected", type)]

\* the lobby calls createRoom()
CreateRoom(code) ==
  /\ room.mode = "none"
  /\ room' = newHostPeer([NoRoom EXCEPT !.mode = "create",
                                       !.promise = [state |-> "pending", value |-> ""]], code)
  /\ isHost' = TRUE
  /\ lastRoom' = RoomEvent("create")
  /\ UNCHANGED <<broker, isConnected>>

\* the broker accepts the id of the host's peer: peer.on('open')
HostPeerOpen ==
  /\ room.mode = "create"
  /\ room.peerState = "pending"
  /\ room.peerId \notin broker
  /\ broker' = broker \cup {room.peerId}
  /\ room' = [room EXCEPT !.peerState = "open",
                          !.promise = settle(room.promise, "resolved", room.roomCode)]
  /\ lastRoom' = RoomEvent("open")
  /\ UNCHANGED <<isHost, isConnected>>

\* the host's peer reports an error: 'unavailable-id' when the broker knows the id
HostPeerError(type, c1, c2, fatal) ==
  /\ room.mode = "create"
  /\ room.peerState \in {"pending", "open"}
  /\ type = "unavailable-id" => room.peerState = "pending" /\ room.peerId \in broker
                                  /\ room.peersCreated < MaxPeers
  /\ LET r == onCreateError(room, type, c1, c2)
     IN room' = IF type # "unavailable-id" /\ fatal THEN [r EXCEPT !.peerState = "failed"]
                ELSE r
  /\ lastRoom' = RoomEvent(type)
  /\ UNCHANGED <<broker, isHost, isConnected>>

\* the lobby calls joinRoom(roomCode)
JoinRoom(typed) ==
  /\ room.mode = "none"
  /\ room' = [NoRoom EXCEPT !.mode = "join", !.roomCode = toUpperCase(typed),
                            !.peerId = <<"random">>, !.peerState = "pending",
                            !.promise = [state |-> "pending", value |-> ""],
                            !.peersCreated = 1]
  /\ isHost' = FALSE
  /\ lastRoom' = RoomEvent("join")
  /\ UNCHANGED <<broker, isConnected>>

\* peer.on('open') of joinRoom: connect to the host, arm the 10 s timeout
JoinPeerOpen ==
  /\ room.mode = "join"
  /\ room.peerState = "pending"
  /\ room' = [room EXCEPT !.peerState = "open", !.connection = "connecting",
                          !.connects = room.connects + 1, !.timeout = "armed"]
  /\ lastRoom' = RoomEvent("open")
  /\ UNCHANGED <<broker, isHost, isConnected>>

\* connection.on('open'): the host's peer exists and answered
JoinConnectionOpen ==
  /\ room.mode = "join"
  /\ room.connection = "connecting"
  /\ PeerIdOf(room.roomCode) \in broker
  /\ isConnected' = TRUE
  /\ room' = [room EXCEPT !.connection = "open",
                          !.promise = settle(room.promise, "resolved", "true")]
  /\ lastRoom' = RoomEvent("connected")
  /\ UNCHANGED <<broker, isHost>>

\* connection.on('error')
JoinConnectionError ==
  /\ room.mode = "join"
  /\ room.connection = "connecting"
  /\ room' = [room EXCEPT !.connection = "error",
                          !.promise = settle(room.promise, "rejected", "connection")]
  /\ lastRoom' = RoomEvent("connection-error")
  /\ UNCHANGED <<broker, isHost, isConnected>>

\* the timeout armed when the peer opened fires after 10 s
JoinTimeout ==
  /\ room.mode = "join"
  /\ room.timeout = "armed"
  /\ room' = [room EXCEPT !.timeout = "fired",
                          !.promise = IF ~isConnected
                                      THEN settle(room.promise, "rejected", "timeout")
                                      ELSE room.promise]
  /\ lastRoom' = RoomEvent("timeout")
  /\ UNCHANGED <<broker, isHost, isConnected>>

\* peer.on('error') of joinRoom
JoinPeerError(type, fatal) ==
  /\ room.mode = "join"
  /\ room.peerState \in {"pending", "open"}
  /\ room' = [room EXCEPT !.promise = settle(room.promise, "rejected", type),
                          !.peerState = IF fatal THEN "failed" ELSE room.peerState]
  /\ lastRoom' = RoomEvent(type)
  /\ UNCHANGED <<broker, isHost, isConnected>>

\* what a step of the room slice leaves alone
RoomFrame ==
  /\ UNCHANGED <<isMobile, isRunning, myKills, matchResult, networkPlayer, inbox, outbox,
                 respawnTimers, received, lastEvent>>
  /\ UNCHANGED <<isMultiplayer, sinceStateSent, lastSentState, lastPose, lastSync,
                 framesSinceLoss>>
  /\ UNCHANGED <<playerVars, weaponVars, weaponObs, combatVars, moveVars, puppetVars>>
  /\ UNCHANGED <<grenadeVars, timerVars>>

\* a manager that has neither created nor joined a room
RoomIdle ==
  /\ room = NoRoom
  /\ broker = {}
  /\ lastRoom = NoRoomEvent

\* a fresh manager in the lobby; other hosts have registered rooms at the broker
RoomStart ==
  /\ room = NoRoom
  /\ broker \in {{}, {PeerIdOf("AB")}, {PeerIdOf("AB"), PeerIdOf("CD")}}
  /\ lastRoom = NoRoomEvent

\* Game.gameLoop with a test that lets every frame run
loopRuns_Always == TRUE

\* Game.gameLoop: the frame body runs only while isRunning
loopRuns == isRunning

\* one Game.gameLoop call of a solo game: nothing but the next
\* requestAnimationFrame when the game is not running
GameLoop(step, fire, reloadKey) == loopRuns /\ GameLoopWeapon(step, fire, reloadKey)

----------------------------------------------------------------------------
(* Grenades (Grenade, GrenadeSystem, Game.throwGrenade, Game.checkGrenadeExplosions) *)

MaxThrown == 2           \* grenades thrown per behaviour

GrenadeStock == 3        \* GrenadeSystem.grenadeCount = 3
fuseTime == 180          \* Grenade.fuseTime = 3.0 s, in ticks
grenadeGravity == 20000  \* Grenade.gravity = 20
maxBounces == 3          \* Grenade.maxBounces
GrenadeRest == 150       \* a grenade rests 0.15 above the terrain
ExplosionRadius == 8000  \* Grenade.getExplosionRadius() = 8
ExplosionDamage == 75    \* Grenade.getExplosionDamage() = 75
GrenadeSteps == {6}      \* frame length of the grenade slice: 100 ms, the delta cap

\* velocities of Game.throwGrenade, (camera direction + (0, 0.3, 0)) normalised
\* times 20: the camera looks straight down, or steeply up and a little east
ThrowVelocities == {Vec(0, -20000, 0), Vec(2000, 19900, 0)}

\* new Grenade(scene, position, direction, throwForce, particleSystem)
NewGrenade(pos, velocity) ==
  [position |-> pos, velocity |-> velocity, timer |-> 0, exploded |-> FALSE,
   bounceCount |-> 0]

\* Grenade.update(delta, getTerrainHeight): the grenade afterwards and the value returned
grenadeUpdate(g, delta) ==
  IF g.exploded THEN [grenade |-> g, done |-> TRUE]
  ELSE
    LET timer == g.timer + delta
        vy == g.velocity.y - (grenadeGravity * delta) \div TicksPerSecond
        p == Vec(g.position.x + (g.velocity.x * delta) \div TicksPerSecond,
                 g.position.y + (vy * delta) \div TicksPerSecond,
                 g.position.z + (g.velocity.z * delta) \div TicksPerSecond)
        rest == getHeightAt(p.x, p.z) + GrenadeRest
        landed == p.y <= rest
        bounce == landed /\ g.bounceCount < maxBounces
    IN IF timer >= fuseTime
       THEN \* explode()
            [grenade |-> [g EXCEPT !.timer = timer, !.exploded = TRUE], done |-> TRUE]
       ELSE [grenade |->
               [g EXCEPT
                  !.timer = timer,
                  !.position = IF landed THEN [p EXCEPT !.y = rest] ELSE p,
                  !.velocity =
                     IF bounce
                     THEN Vec((g.velocity.x * 8) \div 10, (Abs(vy) * 6) \div 10,
                              (g.velocity.z * 8) \div 10)
                     ELSE IF landed
                     THEN Vec((g.velocity.x * 9) \div 10, 0, (g.velocity.z * 9) \div 10)
                     ELSE Vec(g.velocity.x, vy, g.velocity.z),
                  !.bounceCount = IF bounce THEN g.bounceCount + 1 ELSE g.bounceCount],
             done |-> FALSE]

\* GrenadeSystem.update(delta, getTerrainHeight): every grenade is updated and the
\* ones whose update returns true are destroyed and spliced out of the list
grenadeSystemUpdate(gs, delta) ==
  LET updated == [i \in 1..Len(gs) |-> grenadeUpdate(gs[i], delta)]
      kept == SelectSeq(updated, LAMBDA u : ~u.done)
  IN [grenades |-> [i \in 1..Len(kept) |-> kept[i].grenade],
      expired |-> Cardinality({i \in 1..Len(gs) :
                                 updated[i].grenade.exploded /\ ~gs[i].exploded})]

\* GrenadeSystem.getActiveGrenades(): the grenades of the list that have exploded
getActiveGrenades(gs) == SelectSeq(gs, LAMBDA g : g.exploded)

\* the body of checkGrenadeExplosions for one exploded grenade; the slice has one
\* enemy, whose mesh is at meshPosition
explosion(c, g) ==
  LET distance == distanceTo(meshPosition, g.position)
      damage == (ExplosionDamage * (ExplosionRadius - distance)) \div ExplosionRadius
      hurt == [j \in 1..Len(c.enemies) |->
                 IF distance < ExplosionRadius
                 THEN enemyTakeDamage(c.enemies[j], damage, FALSE)
                 ELSE c.enemies[j]]
      dead == {j \in 1..Len(hurt) : distance < ExplosionRadius /\ isDead(hurt[j])}
      playerDist == distanceTo(position, g.position)
      playerDamage == (ExplosionDamage * (ExplosionRadius - playerDist))
                         \div (2 * ExplosionRadius)
  IN [c EXCEPT !.enemies = hurt,
               !.kills = c.kills + Cardinality(dead),
               !.health = IF playerDist < ExplosionRadius
                          THEN takeDamage(c.health, playerDamage)
                          ELSE c.health]

\* Game.checkGrenadeExplosions() over the grenades getActiveGrenades returned
RECURSIVE checkGrenadeExplosions(_, _)
checkGrenadeExplosions(c, gs) ==
  IF gs = <<>> THEN c
  ELSE checkGrenadeExplosions(explosion(c, Head(gs)), Tail(gs))

NoBlast == [expired |-> 0, applied |-> 0]

\* Game.throwGrenade() from the key handler, GrenadeSystem.throwGrenade
throwGrenade(velocity) ==
  /\ isRunning
  /\ grenadeCount > 0
  /\ grenadeCount > GrenadeStock - MaxThrown
  /\ grenades' = Append(grenades, NewGrenade(position, velocity))
  /\ grenadeCount' = grenadeCount - 1
  /\ lastBlast' = NoBlast
  /\ UNCHANGED <<playerVars, netVars, weaponVars, weaponObs, combatVars, moveVars,
                 syncVars, puppetVars, roomVars, timerVars>>

\* the grenade part of one Game.gameLoop frame: grenadeSystem.update, then
\* checkGrenadeExplosions
GameLoopGrenades(delta) ==
  /\ loopRuns
  /\ grenades # <<>>
  /\ LET system == grenadeSystemUpdate(grenades, delta)
         active == getActiveGrenades(system.grenades)
         c == checkGrenadeExplosions(CombatRec, active)
     IN /\ grenades' = system.grenades
        /\ enemies' = c.enemies
        /\ kills' = c.kills
        /\ health' = c.health
        /\ lastBlast' = [expired |-> system.expired, applied |-> Len(active)]
  /\ UNCHANGED <<grenadeCount, position, bossSpawned, waveNumber, respawnPending,
                 examined, frames>>
  /\ UNCHANGED <<netVars, weaponVars, weaponObs, moveVars, syncVars, puppetVars,
                 roomVars, timerVars>>

\* no grenade has been thrown
GrenadeIdle ==
  /\ grenades = <<>>
  /\ grenadeCount = GrenadeStock
  /\ lastBlast = NoBlast

\* a solo game in progress after Game.start(), nothing received from any peer
SoloRunning ==
  /\ isHost = FALSE
  /\ isMobile \in BOOLEAN
  /\ isRunning = TRUE
  /\ myKills = 0
  /\ matchResult = "none"
  /\ networkPlayer = [health |-> PuppetMaxHealth, position |-> Origin,
                      targetPosition |-> Origin,
                      velocity |-> Origin, updated |-> FALSE, isShooting |-> FALSE]
  /\ inbox = <<>>
  /\ outbox = <<>>
  /\ respawnTimers = 0
  /\ received = 0
  /\ lastEvent = NoEvent

\* the player stands on open terrain with one smg enemy 4 or 10 to the west
GrenadeStart ==
  /\ GrenadeIdle
  /\ colliders = {}
  /\ Standing(ArenaCentre.x, ArenaCentre.z)
  /\ enemies = <<NewEnemy("smg")>>
  /\ \E x \in {ArenaCentre.x - 4000, ArenaCentre.x - 9000} :
       meshPosition = Vec(x, getHeightAt(x, ArenaCentre.z), ArenaCentre.z)
  /\ lastMove = NoMove
  /\ health = MaxHealth
  /\ kills = 0
  /\ bossSpawned = FALSE
  /\ waveNumber = 1
  /\ respawnPending = 0
  /\ examined = {}
  /\ frames = 0

----------------------------------------------------------------------------
(* Timed respawn of killed enemies (the setTimeout of Game.updateProjectiles) *)

NoSpawn == [fired |-> FALSE, age |-> 0, type |-> "none", health |-> 0, x |-> 0, z |-> 0,
            added |-> 0, count |-> 0]

\* no respawn timeout has been armed
TimerIdle ==
  /\ respawnNow = 0
  /\ respawnTimeouts = <<>>
  /\ lastSpawn = NoSpawn

MaxRespawnTime == 7000   \* game time explored by the respawn slice (ms)

\* a delay computed without the 2000 ms base
RespawnDelays_NoBase == {0, 1000, 1999}

\* 2000 + Math.random() * 2000
RespawnDelays == {2000, 3000, 3999}

\* 35 + Math.random() * 25, in centimetres
SpawnDistances == {3500, 4500, 5995}

\* (Math.cos(angle), Math.sin(angle)) times 5 for three values of Math.random()
SpawnAngles == {<<5, 0>>, <<3, 4>>, <<-4, -3>>}

\* the collision branch of updateProjectiles for the first projectile and enemy j;
\* a kill arms the respawn timeout with the delay drawn
ProjectileHits(j, headshot, delay) ==
  /\ loopRuns
  /\ projectiles # <<>>
  /\ j \in 1..Len(enemies)
  /\ LET c == hitEnemy(CombatRec, 1, j, headshot)
     IN /\ projectiles' = c.projectiles
        /\ enemies' = c.enemies
        /\ kills' = c.kills
        /\ bossSpawned' = c.bossSpawned
        /\ waveNumber' = c.waveNumber
        /\ respawnPending' = c.respawnPending
        /\ respawnTimeouts' =
             IF c.kills > kills
             THEN Append(respawnTimeouts, [at |-> respawnNow, due |-> respawnNow + delay])
             ELSE respawnTimeouts
  /\ lastSpawn' = [lastSpawn EXCEPT !.fired = FALSE]
  /\ examined' = {}
  /\ UNCHANGED <<respawnNow, frames, health, position>>
  /\ UNCHANGED <<netVars, weaponObs, moveVars, syncVars, puppetVars, roomVars, grenadeVars>>
  /\ UNCHANGED <<useMultiWeapon, currentWeaponType, currentAmmo, reserveAmmo,
                 timeSinceLastShot, isReloading, reloadTimer>>

\* time passes, up to the next whole second or to the next timeout due; a timeout
\* that is due fires before time goes on
Advance ==
  LET dues == {respawnTimeouts[i].due : i \in 1..Len(respawnTimeouts)}
      next == (respawnNow \div 1000 + 1) * 1000
      instants == {next} \cup {d \in dues : d < next}
  IN /\ respawnNow < MaxRespawnTime
     /\ \A d \in dues : d > respawnNow
     /\ respawnNow' = CHOOSE n \in instants : \A o \in instants : n <= o
     /\ lastSpawn' = [lastSpawn EXCEPT !.fired = FALSE]
     /\ UNCHANGED respawnTimeouts
     /\ UNCHANGED <<playerVars, netVars, weaponVars, weaponObs, combatVars, moveVars,
                    syncVars, puppetVars, roomVars, grenadeVars>>

\* the callback of respawn timeout i: a new enemy of a random type at a random
\* place, and the boss every 10 kills
RespawnTimeoutFires(i, type, distance, angle) ==
  /\ i \in 1..Len(respawnTimeouts)
  /\ respawnTimeouts[i].due <= respawnNow
  /\ LET c1 == [CombatRec EXCEPT !.enemies = Append(enemies, NewEnemy(type)),
                                 !.respawnPending = respawnPending - 1]
         c2 == IF c1.kills > 0 /\ c1.kills % KillsPerBoss = 0 /\ ~c1.bossSpawned
               THEN spawnBoss(c1) ELSE c1
     IN /\ enemies' = c2.enemies
        /\ bossSpawned' = c2.bossSpawned
        /\ respawnPending' = c2.respawnPending
        /\ lastSpawn' = [fired |-> TRUE,
                         age |-> respawnNow - respawnTimeouts[i].at,
                         type |-> c1.enemies[Len(c1.enemies)].type,
                         health |-> c1.enemies[Len(c1.enemies)].health,
                         x |-> (angle[1] * distance) \div 5,
                         z |-> (angle[2] * distance) \div 5,
                         added |-> Len(c2.enemies) - Len(enemies),
                         count |-> lastSpawn.count + 1]
  /\ respawnTimeouts' = RemoveAt(respawnTimeouts, i)
  /\ examined' = {}
  /\ UNCHANGED <<respawnNow, kills, waveNumber, frames>>
  /\ UNCHANGED <<playerVars, netVars, weaponVars, weaponObs, moveVars, syncVars,
                 puppetVars, roomVars, grenadeVars>>

\* a solo game with 8 kills, every earlier respawn done: two wounded enemies in
\* front of the player and two rifle projectiles in flight
RespawnStart ==
  /\ TimerIdle
  /\ enemies = <<[NewEnemy("smg") EXCEPT !.health = 10],
                 [NewEnemy("rifle") EXCEPT !.health = 50]>>
  /\ kills = 8
  /\ bossSpawned = FALSE
  /\ waveNumber = 1
  /\ respawnPending = 0
  /\ examined = {}
  /\ frames = 0
  /\ useMultiWeapon = TRUE
  /\ currentWeaponType = "rifle"
  /\ currentAmmo = WEAPON_CONFIGS["rifle"].maxAmmo - 2
  /\ reserveAmmo = WEAPON_CONFIGS["rifle"].reserveAmmo
  /\ timeSinceLastShot = SinceCap
  /\ isReloading = FALSE
  /\ reloadTimer = 0
  /\ projectiles = Pellets("rifle") \o Pellets("rifle")
  /\ lastFire = NoFire
  /\ lastReload = NoReload
  /\ sinceAccepted = -1
  /\ switches = 0
  /\ shotCount = 0
  /\ putAway = NeverPutAway
  /\ script = NoScript

----------------------------------------------------------------------------
(* Specifications *)

NextWeapon ==
  \/ \E step \in FrameSteps, fire \in BOOLEAN, reloadKey \in BOOLEAN :
       GameLoopWeapon(step, fire, reloadKey)
  \/ \E type \in MultiWeaponTypes : switchWeapon(type)

InitWeapon == WeaponStart /\ PlayerIdle /\ NetIdle /\ CombatIdle /\ MoveIdle /\ SyncIdle /\ PuppetIdle /\ RoomIdle /\ GrenadeIdle /\ TimerIdle

SpecWeapon == InitWeapon /\ [][NextWeapon]_vars

InitNet == NetStart /\ WeaponIdle /\ CombatIdle /\ MoveIdle /\ SyncIdle /\ PuppetIdle /\ RoomIdle /\ GrenadeIdle /\ TimerIdle

NextNet ==
  \/ \E m \in PeerMessages : PeerSend(m)
  \/ \E interval \in SnapshotIntervals : Receive(interval)
  \/ \E spawnPos \in RespawnPoints(isHost) : RespawnTimeout(spawnPos)
  \/ pause

SpecNet == InitNet /\ [][NextNet]_vars

InitCombat == CombatStart /\ WeaponIdle /\ NetIdle /\ MoveIdle /\ SyncIdle /\ PuppetIdle /\ RoomIdle /\ GrenadeIdle /\ TimerIdle

NextCombat ==
  \/ \E step \in CombatSteps, aims \in [1..Len(projectiles) -> Aims(Len(enemies))],
        yaw \in Yaws :
       GameLoopCombat(step, aims, yaw)
  \/ FireProjectiles
  \/ \E type \in RespawnTypes : RespawnEnemy(type)
  \/ CollectHealth

SpecCombat == InitCombat /\ [][NextCombat]_vars

InitMilestone == MilestoneStart /\ WeaponIdle /\ NetIdle /\ MoveIdle /\ SyncIdle /\ PuppetIdle /\ RoomIdle /\ GrenadeIdle /\ TimerIdle

\* a respawn timeout that is pending fires (setTimeout, 2 to 4 s)
SpecCombatFair ==
  InitMilestone /\ [][NextCombat]_vars /\ WF_vars(\E type \in RespawnTypes : RespawnEnemy(type))

\* a solo game in progress after Game.start(): the rifle with its last round in
\* the magazine, one enemy alive and the respawn timeout of one kill pending
PauseStart ==
  /\ SoloRunning
  /\ useMultiWeapon = TRUE
  /\ currentWeaponType = "rifle"
  /\ currentAmmo = 1
  /\ reserveAmmo = WEAPON_CONFIGS["rifle"].maxAmmo + 1
  /\ timeSinceLastShot = SinceCap
  /\ isReloading = FALSE
  /\ reloadTimer = 0
  /\ projectiles = <<>>
  /\ lastFire = NoFire
  /\ lastReload = NoReload
  /\ sinceAccepted = -1
  /\ switches = 0
  /\ shotCount = 0
  /\ putAway = NeverPutAway
  /\ script = NoScript
  /\ enemies = <<NewEnemy("smg")>>
  /\ kills = 1
  /\ bossSpawned = FALSE
  /\ waveNumber = 1
  /\ respawnPending = 1
  /\ examined = {}
  /\ frames = 0

InitPause == PauseStart /\ PlayerIdle /\ MoveIdle /\ SyncIdle /\ PuppetIdle /\ RoomIdle /\ GrenadeIdle /\ TimerIdle

NextPause ==
  \/ \E step \in FrameSteps, fire \in BOOLEAN, reloadKey \in BOOLEAN :
       GameLoop(step, fire, reloadKey)
  \/ pause
  \/ \E type \in RespawnTypes : RespawnEnemy(type)

SpecPause == InitPause /\ [][NextPause]_vars

InitGrenade == GrenadeStart /\ SoloRunning /\ WeaponIdle /\ SyncIdle /\ PuppetIdle /\ RoomIdle /\ TimerIdle

NextGrenade ==
  \/ \E velocity \in ThrowVelocities : throwGrenade(velocity)
  \/ \E delta \in GrenadeSteps : GameLoopGrenades(delta)
  \/ pause

SpecGrenade == InitGrenade /\ [][NextGrenade]_vars

InitRespawn == RespawnStart /\ SoloRunning /\ PlayerIdle /\ MoveIdle /\ SyncIdle /\ PuppetIdle /\ RoomIdle /\ GrenadeIdle

NextRespawn ==
  \/ \E j \in 1..MaxEnemies, headshot \in BOOLEAN, delay \in RespawnDelays :
       ProjectileHits(j, headshot, delay)
  \/ Advance
  \/ \E i \in 1..MaxEnemies, type \in RespawnTypes, distance \in SpawnDistances,
        angle \in SpawnAngles :
       RespawnTimeoutFires(i, type, distance, angle)

SpecRespawn == InitRespawn /\ [][NextRespawn]_vars

InitMove == MoveStart /\ WeaponIdle /\ NetIdle /\ SyncIdle /\ PuppetIdle /\ RoomIdle /\ GrenadeIdle /\ TimerIdle

NextMove ==
  \/ \E delta \in MoveSteps, key \in Keys, facing \in Facings, jump \in BOOLEAN :
       PlayerUpdate(delta, key, facing, jump)
  \/ \E delta \in MoveSteps : EnemyUpdate(delta)

SpecMove == InitMove /\ [][NextMove]_vars

InitChase == ChaseStart /\ WeaponIdle /\ NetIdle /\ SyncIdle /\ PuppetIdle /\ RoomIdle /\ GrenadeIdle /\ TimerIdle

NextChase == \E delta \in MoveSteps : ChaseFrame(delta)

\* the game loop keeps running frames
SpecChase == InitChase /\ [][NextChase]_vars /\ WF_vars(NextChase)

\* the host of a match on a desktop browser
InitSync == SyncStart /\ NetStart /\ isHost /\ ~isMobile /\ WeaponIdle /\ CombatIdle /\ MoveIdle /\ PuppetIdle /\ RoomIdle /\ GrenadeIdle /\ TimerIdle

NextSync ==
  \/ \E step \in SyncSteps, pos \in SyncPositions, yaw \in SyncYaws, mouseDown \in BOOLEAN :
       GameLoopSync(step, pos, yaw, mouseDown)
  \/ isConnected /\ PeerSend(Msg("hit", 25, Origin, 0, 0))
  \/ isConnected /\ Receive(0)
  \/ pause
  \/ ConnectionClose

SpecSync == InitSync /\ [][NextSync]_vars

\* the host of a match on a desktop browser, its puppet on the clock
InitPuppet ==
  /\ NetStart /\ isHost /\ ~isMobile /\ PuppetIdle /\ WeaponIdle /\ CombatIdle /\ MoveIdle
  /\ SyncIdle /\ RoomIdle /\ GrenadeIdle /\ TimerIdle

NextPuppet ==
  \/ \E m \in PuppetSnapshots : PuppetReceive(m)
  \/ \E delta \in PuppetFrames : PuppetFrame(delta)

SpecPuppet == InitPuppet /\ [][NextPuppet]_vars

InitRoom ==
  RoomStart /\ NetIdle /\ PlayerIdle /\ WeaponIdle /\ CombatIdle /\ MoveIdle /\ SyncIdle /\ PuppetIdle /\ GrenadeIdle /\ TimerIdle

NextRoom ==
  \/ \E code \in RoomCodes : CreateRoom(code) /\ RoomFrame
  \/ HostPeerOpen /\ RoomFrame
  \/ \E type \in {"unavailable-id"} \cup OtherErrors, c1 \in RoomCodes, c2 \in RoomCodes,
        fatal \in BOOLEAN :
       HostPeerError(type, c1, c2, fatal) /\ RoomFrame
  \/ \E typed \in TypedCodes : JoinRoom(typed) /\ RoomFrame
  \/ JoinPeerOpen /\ RoomFrame
  \/ JoinConnectionOpen /\ RoomFrame
  \/ JoinConnectionError /\ RoomFrame
  \/ JoinTimeout /\ RoomFrame
  \/ \E type \in OtherErrors, fatal \in BOOLEAN : JoinPeerError(type, fatal) /\ RoomFrame

SpecRoom == InitRoom /\ [][NextRoom]_vars

----------------------------------------------------------------------------
(* Properties of the weapon firing model *)

\* floor(elapsed * fireRate) for an elapsed time in ticks
FloorShots(type, elapsed) ==
  (elapsed * WEAPON_CONFIGS[type].fireRate10) \div (10 * TicksPerSecond)

\* C6: a fire request made before the cooldown since the last accepted shot has
\* elapsed changes neither ammo, reserve, lastShotTime nor the reloading flag and
\* adds no projectile; and no shot of a weapon is accepted before the cooldown
\* since that weapon's previous accepted shot has elapsed.
C6_EarlyFireIgnored ==
  /\ lastFire.early => (~lastFire.accepted /\ ~lastFire.changed /\ lastFire.spawned = 0)
  /\ ~lastFire.tooSoon

\* an early request arrived after this weapon had fired, and was the last thing
\* the fire handling saw
C6_Witness ==
  /\ lastFire.early
  /\ sinceAccepted >= 0
  /\ Len(projectiles) > 0

\* C7 (as stated): in a rapid-fire sequence the number of accepted shots is
\* exactly floor(elapsed * fireRate).
C7_ExactShotCount ==
  script.rapid => script.shots = FloorShots(script.type, script.elapsed)

\* C7 (amended): in a rapid-fire sequence the number of accepted shots is at most
\* floor(elapsed * fireRate) + 1; at most floor(elapsed * fireRate) when the
\* sequence starts at the weapon's last shot time; and exactly that number when,
\* in addition, all frames have the same length and it divides 1000 / fireRate.
C7_ShotCountBound ==
  script.rapid =>
    /\ script.shots <= FloorShots(script.type, script.elapsed) + 1
    /\ script.fresh => script.shots <= FloorShots(script.type, script.elapsed)
    /\ (script.fresh /\ script.step > 0 /\ Period(script.type) % script.step = 0)
         => script.shots = FloorShots(script.type, script.elapsed)

\* a rapid-fire sequence with constant dividing frame length that accepted two shots
C7_Witness ==
  /\ script.rapid /\ script.fresh /\ script.step > 0
  /\ Period(script.type) % script.step = 0
  /\ script.shots >= 2

\* C8: a completed reload leaves ammo = min(magazine, ammo + reserve), conserves
\* ammo + reserve, keeps the reserve non-negative and clears the reloading flag.
C8_ReloadConservation ==
  lastReload.finished =>
    /\ lastReload.ammoAfter =
         Min(WEAPON_CONFIGS[lastReload.type].maxAmmo,
             lastReload.ammoBefore + lastReload.reserveBefore)
    /\ lastReload.ammoAfter + lastReload.reserveAfter
         = lastReload.ammoBefore + lastReload.reserveBefore
    /\ lastReload.reserveAfter >= 0
    /\ ~lastReload.reloadingAfter

\* a reload completed with a reserve smaller than the number of missing rounds
C8_Witness ==
  /\ lastReload.finished
  /\ lastReload.reserveBefore > 0
  /\ lastReload.reserveBefore
       < WEAPON_CONFIGS[lastReload.type].maxAmmo - lastReload.ammoBefore

----------------------------------------------------------------------------
(* Properties of the peer-to-peer protocol *)

\* C10: every event received from the peer is applied once, whatever the local
\* state: a hit with damage d applies takeDamage(d) to the local player, a death
\* adds exactly 1 to myKills, a respawn puts the puppet at the given coordinates
\* with full health, a win ends the local match as a defeat.
C10_EventsAppliedUnconditionally ==
  LET m == lastEvent.msg
      b == lastEvent.before
  IN /\ m.t = "hit" => health = Max(0, b.health - m.damage)
     /\ m.t = "death" => myKills = b.myKills + 1
     /\ m.t = "respawn" =>
          /\ networkPlayer.health = PuppetMaxHealth
          /\ networkPlayer.position = Vec(m.x, m.y, m.z)
          /\ networkPlayer.targetPosition = Vec(m.x, m.y, m.z)
          /\ networkPlayer.velocity = Origin
     /\ m.t = "win" => (~isRunning /\ matchResult = "DEFEAT")

\* a death event arrived while the local loop was stopped and was counted
C10_Witness ==
  /\ lastEvent.msg.t = "death"
  /\ ~lastEvent.before.isRunning
  /\ lastEvent.before.myKills >= 1
  /\ myKills = lastEvent.before.myKills + 1

----------------------------------------------------------------------------
(* Properties of the projectile-hit resolver and of actor health *)

\* C1: the health of every actor stays within 0 .. its maximum: the local player,
\* every enemy in the active list, every enemy right after a projectile hit, and
\* the puppet.
C1_HealthWithinRange ==
  /\ 0 <= health /\ health <= MaxHealth
  /\ \A i \in 1..Len(enemies) :
       0 <= enemies[i].health /\ enemies[i].health <= ENEMY_CONFIGS[enemies[i].type].health
  /\ \A r \in examined :
       r.hit => (0 <= r.healthAfter /\ r.healthAfter <= ENEMY_CONFIGS[r.type].health)
  /\ 0 <= networkPlayer.health /\ networkPlayer.health <= PuppetMaxHealth

\* C5: for every projectile and enemy examined by updateProjectiles a headshot is
\* a hit, and doubled damage or the 150-point score goes only to a registered hit;
\* for every enemy type and facing the hit box holds the whole headshot ball.
C5_HeadshotImpliesHit ==
  /\ \A r \in examined :
       /\ r.headshot => r.hit
       /\ (r.dealt = 2 * ProjectileDamage \/ r.points = 150) => r.hit
  /\ \A type \in EnemyTypes, yaw \in Yaws :
       LET enemy == NewEnemy(type)
           box == expandByScalar(getBoundingBox(enemy, yaw), HitMargin)
           h == getHeadPosition(enemy)
       IN /\ containsPoint(box, Vec(h.x - HeadshotRadius, h.y - HeadshotRadius, h.z - HeadshotRadius))
          /\ containsPoint(box, Vec(h.x + HeadshotRadius, h.y + HeadshotRadius, h.z + HeadshotRadius))

\* a headshot was registered as a hit with doubled damage, and another pair was
\* examined in the same frame without a hit
C5_Witness ==
  /\ \E r \in examined : r.headshot /\ r.hit /\ r.dealt = 2 * ProjectileDamage
  /\ \E r \in examined : ~r.headshot /\ ~r.hit

\* C9: an enemy killed by a projectile is still in the active list, dying, at the
\* end of the frame of the kill.
C9_KilledEnemyStaysInList ==
  \A r \in examined : r.killed => (r.dyingAfter /\ ~r.removed)

----------------------------------------------------------------------------
(* Properties of the movement / collision resolver (SpecMove) *)

\* the last step resolved a horizontal request of the player or of an enemy
Stepped == lastMove.actor # "none"

\* C2: after any sequence of Player.update steps from a free position the player's
\* collision box (1 x 1.6 x 1, centred 0.5 below the eye) intersects no static collider.
C2_PlayerBoxNeverPenetrates ==
  ~hitsCollider(playerBox(position.x, position.y, position.z), colliders)

\* C3 as stated: a movement step of the player or of an enemy whose X-only displaced
\* box and Z-only displaced box each intersect a collider leaves x and z unchanged.
C3_BothAxesBlocked ==
  (Stepped /\ lastMove.hitX /\ lastMove.hitZ)
    => (lastMove.movedX = 0 /\ lastMove.movedZ = 0)

\* C3 amended: a movement step of the player or of an enemy whose fully displaced box,
\* X-only displaced box and Z-only displaced box each intersect a collider leaves x
\* and z unchanged.
C3_AllBoxesBlocked ==
  (Stepped /\ lastMove.hitFull /\ lastMove.hitX /\ lastMove.hitZ)
    => (lastMove.movedX = 0 /\ lastMove.movedZ = 0)

\* a diagonal request into the corner between the crate and the rock that all three
\* test boxes reject, after which the player stands where it stood
C3_Witness ==
  /\ lastMove.actor = "player"
  /\ lastMove.dx # 0 /\ lastMove.dz # 0
  /\ lastMove.hitFull /\ lastMove.hitX /\ lastMove.hitZ
  /\ lastMove.movedX = 0 /\ lastMove.movedZ = 0

\* C4: a movement step of the player or of an enemy in which the box displaced along
\* exactly one axis alone intersects a collider moves the actor by zero along that
\* axis and by the full requested amount along the other.
C4_SlidesAlongFreeAxis ==
  (Stepped /\ lastMove.hitX # lastMove.hitZ)
    => /\ lastMove.movedX = (IF lastMove.hitX THEN 0 ELSE lastMove.dx)
       /\ lastMove.movedZ = (IF lastMove.hitZ THEN 0 ELSE lastMove.dz)

\* C11: a state message is transmitted only when at least 50 ms have passed
\* since the previous send attempt and the offered state differs significantly
\* from the last sent state (position by more than 0.05 on an axis, yaw by more
\* than 0.02, or a different health or shooting flag); offering a state
\* identical to the last sent state transmits nothing
C11_StateSendThrottled ==
  /\ lastSync.sent => lastSync.elapsedOK /\ lastSync.significant
  /\ lastSync.identical => ~lastSync.sent

\* an attempt after a full interval offered the state sent last and sent nothing,
\* and the manager holds a state it has sent after a significant change
C11_Witness ==
  /\ lastSync.attempted /\ lastSync.prevKnown
  /\ lastSync.identical /\ ~lastSync.sent
  /\ lastSentState.known /\ lastSentState.x # 20000

\* C13: once the data connection of a running multiplayer match has closed, the
\* local simulation stops advancing: no frame of the game loop updates the
\* player or sends its state
C13_SimulationStopsOnLoss == isMultiplayer /\ ~isConnected => framesSinceLoss = 0

\* the last target extrapolated by the velocity estimate over the elapsed ms
extrapolated(np, elapsed) ==
  Vec(np.targetPosition.x + (np.velocity.x * elapsed) \div 1000,
      np.targetPosition.y + (np.velocity.y * elapsed) \div 1000,
      np.targetPosition.z + (np.velocity.z * elapsed) \div 1000)

\* C12: with no newer snapshot, the position a frame predicts for the puppet is
\* the last target plus the velocity estimate times the time elapsed since the
\* last snapshot was received, whatever the number and length of the frames
C12_PredictionFollowsClock ==
  puppetStep.kind = "frame" /\ networkPlayer.updated
    => predictedPosition = extrapolated(networkPlayer, puppetNow - lastUpdateTime)

\* C20: when several snapshots arrived between two frames, the frame sees the
\* target position, the health and the shooting indication of the last of them
C20_LastSnapshotWins ==
  puppetStep.kind = "frame" /\ puppetStep.coalesced >= 2
    => /\ networkPlayer.targetPosition = Vec(lastSnapshot.x, lastSnapshot.y, lastSnapshot.z)
       /\ networkPlayer.health = lastSnapshot.h
       /\ muzzleFlash = (IF lastSnapshot.s = 1 THEN FlashIntensity ELSE 0)

\* C18: each death of the local player schedules exactly one respawn and sends
\* exactly one death message: while a respawn is pending, further hits schedule
\* no second respawn
C18_OneRespawnPerDeath == respawnTimers <= 1

\* C19: after every Player.update step a grounded player has its eye exactly
\* playerHeight above the terrain under it and no vertical velocity; a player
\* above that height is not left grounded
C19_GroundedOnTerrain ==
  lastMove.actor = "player" /\ isGrounded
    => /\ position.y = getHeightAt(position.x, position.z) + playerHeight
       /\ velocityY = 0

\* the bosses in the active enemy list
Bosses(es) == {j \in 1..Len(es) : es[j].type = "boss"}

\* C15: in a solo game the active enemy list holds at most one boss, bossSpawned
\* is true exactly when it holds one, and a step that kills the boss clears the
\* flag and increases the wave counter by exactly 1
C15_BossSingleton ==
  /\ [](/\ Cardinality(Bosses(enemies)) <= 1
        /\ bossSpawned <=> Bosses(enemies) # {})
  /\ [][Bosses(enemies) # {} /\ Bosses(enemies') = {}
          => ~bossSpawned' /\ waveNumber' = waveNumber + 1]_vars

\* the boss has been killed: wave 2, no boss in the list, the flag cleared
C15_Witness == waveNumber = 2 /\ Bosses(enemies) = {} /\ ~bossSpawned /\ kills = 11

\* C16: whenever the kill counter stands at a positive multiple of 10 and no
\* boss is alive, a boss is eventually spawned, whatever further kills happen
\* before the pending respawn timeouts fire
C16_BossAtMilestone ==
  (kills > 0 /\ kills % KillsPerBoss = 0 /\ ~bossSpawned) ~> bossSpawned

\* C17: with the player standing still and no collider in between, a live enemy
\* eventually comes within the engage distance and damages the player
C17_EnemyEventuallyAttacks ==
  (enemies # <<>> /\ ~enemies[1].isDying) ~> health < MaxHealth

\* C14: createRoom answers 'unavailable-id' with a new code and a new peer and
\* stays pending, resolves only with the code the broker accepted for its peer,
\* and rejects on every other error; joinRoom rejects on a peer error, a
\* connection error or the timeout without connection, and creates one peer and
\* starts one connection at most
C14_RoomRetryPolicy ==
  /\ room.mode = "create" /\ room.promise.state = "resolved"
       => /\ room.promise.value = room.roomCode
          /\ room.peerId = PeerIdOf(room.roomCode)
          /\ room.peerId \in broker
  /\ room.mode = "create" /\ lastRoom.event = "unavailable-id" /\ lastRoom.wasPending
       => /\ room.promise.state = "pending"
          /\ room.peerState = "pending"
          /\ room.peerId = PeerIdOf(room.roomCode)
          /\ room.peersCreated = lastRoom.peersBefore + 1
  /\ lastRoom.event \in OtherErrors \cup {"connection-error"} /\ lastRoom.wasPending
       => room.promise.state = "rejected"
  /\ lastRoom.event = "timeout" /\ lastRoom.wasPending /\ ~isConnected
       => room.promise.state = "rejected"
  /\ room.mode = "join" => room.peersCreated <= 1 /\ room.connects <= 1

\* createRoom resolved after the broker had refused two codes
C14_Witness ==
  /\ room.mode = "create" /\ room.promise.state = "resolved"
  /\ room.peersCreated = 3 /\ room.promise.value = "EF"

\* b lies on the segment from a to c, axis by axis
Between(a, b, c) ==
  /\ (a.x - b.x) * (c.x - b.x) <= 0
  /\ (a.y - b.y) * (c.y - b.y) <= 0
  /\ (a.z - b.z) * (c.z - b.z) <= 0

\* C21: a frame of NetworkPlayer.update never carries the rendered position of
\* the puppet beyond the predicted position: it ends the frame between where it
\* was and the predicted position
C21_NoOvershoot ==
  [][puppetStep'.kind = "frame"
       => Between(networkPlayer.position, networkPlayer'.position, predictedPosition')]_vars

\* number of 'win' messages handed to the connection and not yet taken by it
WinsSent(box) == Cardinality({i \in 1..Len(box) : box[i].t = "win"})

\* C22: once a match result is shown it is final: no later message changes it
\* to the opposite result and no 'win' message is sent afterwards
C22_ResultFinal ==
  [][matchResult # "none"
       => matchResult' = matchResult /\ WinsSent(outbox') <= WinsSent(outbox)]_vars

\* C24: a join attempt whose promise was rejected is never reported as
\* connected afterwards
C24_RejectedStaysDisconnected ==
  room.mode = "join" /\ room.promise.state = "rejected" => ~isConnected

\* C29: the projectiles of an accepted shot carry the damage configured for
\* the weapon type that fired them
C29_ProjectileCarriesWeaponDamage ==
  lastFire.accepted /\ useMultiWeapon
    => \A i \in (Len(projectiles) - lastFire.spawned + 1)..Len(projectiles) :
         projectiles[i].damage = WEAPON_CONFIGS[currentWeaponType].damage

\* C28: a weapon type that is selected again holds no more rounds (magazine
\* plus reserve) than it held when it was last put away; in particular one
\* put away with rounds missing never comes back with the full configured count
C28_SwitchNeverReplenishes ==
  useMultiWeapon /\ putAway[currentWeaponType]
    => currentAmmo + reserveAmmo < FullRounds(currentWeaponType)

BeyondAttackRange ==
  LET offX == position.x - meshPosition.x
      offZ == position.z - meshPosition.z
      range == attackRange(enemies[1].type)
  IN offX * offX + offZ * offZ > range * range

\* C27: in a tick of Enemy.update a live enemy changes its horizontal position
\* exactly when it starts the tick beyond its attack range
C27_MovesIffBeyondRange ==
  [][enemies # <<>> /\ ~enemies[1].isDying /\ lastMove'.actor # "player"
       => ((meshPosition'.x # meshPosition.x \/ meshPosition'.z # meshPosition.z)
             <=> BeyondAttackRange)]_vars

\* C23: while the game is not running no step changes the reload (flag, timer,
\* magazine, reserve), whereas a pending respawn timeout can still fire and
\* then adds its enemy to the active set
C23_PauseHaltsReloadNotRespawn ==
  /\ [][~isRunning
          => <<isReloading, reloadTimer, currentAmmo, reserveAmmo>>'
               = <<isReloading, reloadTimer, currentAmmo, reserveAmmo>>]_vars
  /\ [](~isRunning /\ respawnPending > 0 /\ Len(enemies) < MaxEnemies
          => ENABLED (\E type \in RespawnTypes : RespawnEnemy(type)))
  /\ [][~isRunning /\ respawnPending' < respawnPending
          => /\ Len(enemies') > Len(enemies)
             /\ enemies'[Len(enemies) + 1].health
                  = ENEMY_CONFIGS[enemies'[Len(enemies) + 1].type].health]_vars

\* the game was paused during a reload, with a respawn timeout pending
C23_Witness ==
  /\ ~isRunning
  /\ isReloading /\ reloadTimer > 0
  /\ reloadTimer < WEAPON_CONFIGS[currentWeaponType].reloadTime
  /\ respawnPending > 0

\* C30: every grenade whose fuse expires in a frame has its explosion applied by
\* checkGrenadeExplosions in that frame
C30_ExplosionApplied == lastBlast.applied = lastBlast.expired

====
